---------------------------- MODULE Spec2Model ----------------------------
(***************************************************************************)
(* Model of mindl's BinB downloader:                                       *)
(*   - BinBDescrambler._calculate_descramble_index   (descramble.py)       *)
(*   - ThreadedDownloaderPlugin                      (threaded_downloader) *)
(*   - BinBPlugin.__init__ / download_many           (binb_plugin.py)      *)
(*   - BinBDescrambler key parsing and descramble    (descramble.py)       *)
(*   - BinBApi.get_content_info and its cipher       (binb_api.py)         *)
(*   - TNP_ARRAY                                     (descramble.py)       *)
(*   - BinBDescrambler rectangle generation and copy (descramble.py)       *)
(*   - BinBApi lazy attributes and page lists        (binb_api.py)         *)
(* Characters are modelled by their code points (Python's ord), pages by   *)
(* their 0-based index, threads by their index in self._threads.           *)
(***************************************************************************)
EXTENDS Integers, Sequences, FiniteSets, TLC

VARIABLES
    filename,          \* argument of _calculate_descramble_index (code points)
    index,             \* its return value (c, p), or None before the call
    items,             \* argument of distribute_items
    thread_count,      \* self._thread_count
    expected,          \* self._expected
    thread_items,      \* self._thread_items: None, or one list per thread
    outcome,           \* environment: what get_image/descramble do for each page
    threads,           \* position of every download_many thread
    cur,               \* the local variable `page` of every thread
    started,           \* len(self._threads)
    downloads,         \* self._downloads (queue.Queue)
    download_counter,  \* self.download_counter
    errors,            \* self._errors
    stop_event,        \* self.stop_event
    cpc,               \* position of the consumer (the downloader generator)
    enqueued,          \* history: every got_download call, in order
    yielded,           \* history: every value the generator yielded, in order
    ctbl,              \* BinBDescrambler._ctbl: list of slot strings (code points)
    ptbl,              \* BinBDescrambler._ptbl
    types,             \* BinBDescrambler._types
    t1_parsed,         \* BinBDescrambler._t1_parsed
    t2_parsed_ctbl,    \* BinBDescrambler._t2_parsed_ctbl
    t2_parsed_ptbl,    \* BinBDescrambler._t2_parsed_ptbl
    parsed,            \* how BinBDescrambler.__init__ ended ("unparsed" before)
    used,              \* how the last descramble call ended and what it looked up
    cid,               \* BinBApi.cid
    k_param,           \* BinBApi.k
    plain,             \* history: the texts the server encrypted, (ctbl, ptbl)
    content_info,      \* the ctbl and ptbl fields of the server's response
    key,               \* _decrypt_descramble_data: the local variable key
    res,               \* _decrypt_descramble_data: the local variable res
    decrypted,         \* history: the texts handed to json.loads, in order
    api,               \* how get_content_info ended ("idle" before)
    tnp_char,          \* a character code looked up in TNP_ARRAY
    tnp,               \* the entry found ("unread" before the lookup)
    img_size,          \* img.size of the image handed to descramble
    rects,             \* how descramble ended: the raster size and rectangles
    client,            \* the private fields of a BinBApi
    server,            \* environment: what the servers answer
    requests           \* history: the API methods requested, in order

vars == <<filename, index, items, thread_count, expected, thread_items, outcome,
          threads, cur, started, downloads, download_counter, errors,
          stop_event, cpc, enqueued, yielded,
          ctbl, ptbl, types, t1_parsed, t2_parsed_ctbl, t2_parsed_ptbl, parsed,
          used, cid, k_param, plain, content_info, key, res, decrypted, api,
          tnp_char, tnp, img_size, rects, client, server, requests>>

slotVars == <<filename, index>>
poolVars == <<items, thread_count, expected, thread_items, outcome, threads, cur,
              started, downloads, download_counter, errors, stop_event, cpc,
              enqueued, yielded>>
keyVars == <<ctbl, ptbl, types, t1_parsed, t2_parsed_ctbl, t2_parsed_ptbl,
             parsed, used>>
apiVars == <<cid, k_param, plain, content_info, key, res, decrypted, api>>
tnpVars == <<tnp_char, tnp>>
rectVars == <<img_size, rects>>
clientVars == <<client, server, requests>>

\* Python's None, where a tuple, a list of lists or a count is expected.
None == <<>>

\* The local variable `page` of a thread that has popped no page yet.
NoPage == -1

(***************************************************************************)
(* Bounds of the model.                                                    *)
(***************************************************************************)
MaxLen == 3        \* longest enumerated filename
MaxThreads == 2    \* largest thread count
MaxPages == 3      \* largest book whose pages fail or succeed freely
MaxItems == 4      \* longest item list handed to distribute_items
MaxItem == 2       \* largest item value handed to distribute_items
MaxOver == 1       \* a long book has MAX_ERRORS + 1 .. MAX_ERRORS + MaxOver pages
MaxH == 2          \* largest H written into an enumerated Grid key
MaxV == 2          \* largest V written into an enumerated Grid key
MaxPad == 1        \* largest PAD written into an enumerated Grid key
MaxNd == 2         \* largest ndx, ndy written into an enumerated Tile key
MaxArr == 8        \* longest JSON array the server encrypts
MinArr == 7        \* shortest JSON array the server encrypts as the p-table
MaxCode == 130     \* largest character code looked up in TNP_ARRAY
MaxSide == 9       \* widest image whose pixels are followed one by one

\* binb_plugin.py: MAX_ERRORS = 20
MAX_ERRORS == 20

\* Code points used in enumerated file names: . 0 1 g j p
Chars == {46, 48, 49, 103, 106, 112}

\* "00001.jpg"
SeedFilename == <<48, 48, 48, 48, 49, 46, 106, 112, 103>>

RECURSIVE SeqsUpTo(_, _)
SeqsUpTo(S, n) ==
    IF n = 0 THEN {<<>>}
    ELSE LET shorter == SeqsUpTo(S, n - 1)
         IN  shorter \cup {Append(s, x) : s \in {t \in shorter : Len(t) = n - 1}, x \in S}

Filenames == SeqsUpTo(Chars, MaxLen) \cup {SeedFilename}

(***************************************************************************)
(* BinBDescrambler._calculate_descramble_index                             *)
(***************************************************************************)
RECURSIVE IndexLoopOddFirst(_, _, _, _)
IndexLoopOddFirst(f, i, c, p) ==
    IF i >= Len(f) THEN [c |-> c, p |-> p]
    ELSE LET char == f[i + 1]
         IN  IF i % 2 = 1 THEN IndexLoopOddFirst(f, i + 1, c, p + char)
                          ELSE IndexLoopOddFirst(f, i + 1, c + char, p)

\* The for loop: i is the 0-based position, c and p the accumulators.
RECURSIVE IndexLoop(_, _, _, _)
IndexLoop(f, i, c, p) ==
    IF i >= Len(f) THEN [c |-> c, p |-> p]
    ELSE LET char == f[i + 1]
         IN  IF i % 2 = 0 THEN IndexLoop(f, i + 1, c, p + char)
                          ELSE IndexLoop(f, i + 1, c + char, p)

calculate_descramble_index_swapped(f) ==
    LET r == IndexLoop(f, 0, 0, 0) IN <<r.p % 8, r.c % 8>>

calculate_descramble_index(f) ==
    LET r == IndexLoop(f, 0, 0, 0) IN <<r.c % 8, r.p % 8>>

(***************************************************************************)
(* ThreadedDownloaderPlugin.distribute_items                               *)
(***************************************************************************)
\* The enumerate loop: i is the 0-based position, split the lists so far.
RECURSIVE DistributeLoop(_, _, _, _)
DistributeLoop(its, T, i, split) ==
    IF i >= Len(its) THEN split
    ELSE DistributeLoop(its, T, i + 1,
                        [split EXCEPT ![i % T] = Append(@, its[i + 1])])

split_items_blocks(its, T) ==
    LET size == (Len(its) + T - 1) \div T
    IN  [b \in 0..(T - 1) |->
            [k \in 1..(IF Len(its) > b * size
                       THEN (IF Len(its) - b * size < size
                             THEN Len(its) - b * size ELSE size)
                       ELSE 0) |-> its[b * size + k]]]

split_items(its, T) ==
    DistributeLoop(its, T, 0, [b \in 0..(T - 1) |-> <<>>])

\* range(n)
Range(n) == [k \in 1..n |-> k - 1]


(***************************************************************************)
(* Construction.                                                           *)
(***************************************************************************)
Outcome == {"ok", "fetch_fail", "descramble_fail"}

Threads == 0..(thread_count - 1)

\* BinBDescrambler has not been asked for an index yet.
SlotIdle ==
    /\ filename = <<>>
    /\ index = None

\* No BinBDescrambler has been constructed.
KeyIdle ==
    /\ ctbl = <<>>
    /\ ptbl = <<>>
    /\ types = <<>>
    /\ t1_parsed = <<>>
    /\ t2_parsed_ctbl = <<>>
    /\ t2_parsed_ptbl = <<>>
    /\ parsed = "unparsed"
    /\ used = [err |-> "uncalled"]

\* No BinBApi has asked for the content info.
ApiIdle ==
    /\ cid = <<>>
    /\ k_param = <<>>
    /\ plain = <<>>
    /\ content_info = <<>>
    /\ key = 0
    /\ res = <<>>
    /\ decrypted = <<>>
    /\ api = "idle"

\* No image has been handed to descramble.
RectIdle ==
    /\ img_size = <<0, 0>>
    /\ rects = [err |-> "uncalled"]

\* No BinBApi has been constructed.
ClientIdle ==
    /\ client = [made |-> FALSE]
    /\ server = [made |-> FALSE]
    /\ requests = <<>>

\* Nothing has been looked up in TNP_ARRAY.
TnpIdle ==
    /\ tnp_char = 0
    /\ tnp = [err |-> "unread", val |-> 0]

\* ThreadedDownloaderPlugin.__init__(thread_count)
ThreadedDownloaderInit(T) ==
    /\ thread_count = T
    /\ threads = [w \in 0..(T - 1) |-> "unstarted"]
    /\ cur = [w \in 0..(T - 1) |-> NoPage]
    /\ started = 0
    /\ stop_event = FALSE
    /\ downloads = <<>>
    /\ download_counter = 0
    /\ errors = 0
    /\ cpc = "start"
    /\ enqueued = <<>>
    /\ yielded = <<>>

\* BinBPlugin.__init__: super().__init__(threads), then
\* distribute_items(range(len(pages)), expected_downloads=len(pages))
BinBPluginInit(T, n, o) ==
    /\ ThreadedDownloaderInit(T)
    /\ items = Range(n)
    /\ expected = n
    /\ thread_items = split_items(Range(n), T)
    /\ outcome = o

\* Books: short ones whose pages behave freely, and long ones (more pages than
\* the error budget) in which every page but the first fails to download.
BookSizes == (0..MaxPages) \cup ((MAX_ERRORS + 1)..(MAX_ERRORS + MaxOver))

Outcomes(n) ==
    IF n <= MaxPages THEN [0..(n - 1) -> Outcome]
    ELSE {[pg \in 0..(n - 1) |-> IF pg = 0 THEN g ELSE "fetch_fail"] : g \in Outcome}

Init ==
    /\ SlotIdle
    /\ KeyIdle
    /\ ApiIdle
    /\ TnpIdle
    /\ RectIdle
    /\ ClientIdle
    /\ \E T \in 1..MaxThreads, n \in BookSizes :
          \E o \in Outcomes(n) : BinBPluginInit(T, n, o)

(***************************************************************************)
(* ThreadedDownloaderPlugin: the consumer (downloader generator).          *)
(***************************************************************************)
\* _are_threads_alive
are_threads_alive == \E w \in 0..(started - 1) : threads[w] # "dead"

\* "{:04d}.{ext}".format(page + 1, ext): the number the name is formatted from.
Filename(page) == page + 1

\* _start_threads: one iteration of the loop; the try block follows the last.
StartThread ==
    /\ cpc = "start"
    /\ started < thread_count
    /\ threads' = [threads EXCEPT ![started] = "top"]
    /\ started' = started + 1
    /\ cpc' = IF started + 1 = thread_count THEN "loop" ELSE "start"
    /\ UNCHANGED <<slotVars, keyVars, apiVars, tnpVars, rectVars, clientVars,
                   items, thread_count, expected, thread_items, outcome,
                   cur, downloads, download_counter, errors, stop_event,
                   enqueued, yielded>>

DoneResultOffByOne ==
    IF expected = -1 THEN "get"
    ELSE IF download_counter > expected THEN "RuntimeError_more"
    ELSE IF download_counter >= expected - 1 THEN "finished"
    ELSE "get"

\* _done(), evaluated by `while not self._done()`
DoneResult ==
    IF expected = -1 THEN "get"
    ELSE IF download_counter > expected THEN "RuntimeError_more"
    ELSE IF download_counter = expected THEN "finished"
    ELSE "get"

Done ==
    /\ cpc = "loop"
    /\ cpc' = DoneResult
    /\ UNCHANGED <<slotVars, keyVars, apiVars, tnpVars, rectVars, clientVars,
                   items, thread_count, expected, thread_items, outcome,
                   threads, cur, started, downloads, download_counter, errors,
                   stop_event, enqueued, yielded>>

GetLast ==
    /\ cpc = "get"
    /\ downloads # <<>>
    /\ downloads' = SubSeq(downloads, 1, Len(downloads) - 1)
    /\ download_counter' = download_counter + 1
    /\ yielded' = Append(yielded, downloads[Len(downloads)])
    /\ cpc' = "yield"
    /\ UNCHANGED <<slotVars, keyVars, apiVars, tnpVars, rectVars, clientVars,
                   items, thread_count, expected, thread_items, outcome,
                   threads, cur, started, errors, stop_event, enqueued>>

\* An item is returned and counted twice.
GetCountsTwice ==
    /\ cpc = "get"
    /\ downloads # <<>>
    /\ downloads' = Tail(downloads)
    /\ download_counter' = download_counter + 2
    /\ yielded' = Append(yielded, Head(downloads))
    /\ cpc' = "yield"
    /\ UNCHANGED <<slotVars, keyVars, apiVars, tnpVars, rectVars, clientVars,
                   items, thread_count, expected, thread_items, outcome,
                   threads, cur, started, errors, stop_event, enqueued>>

\* self._downloads.get(timeout=0.25) returns an item; counter += 1; yield.
Get ==
    /\ cpc = "get"
    /\ downloads # <<>>
    /\ downloads' = Tail(downloads)
    /\ download_counter' = download_counter + 1
    /\ yielded' = Append(yielded, Head(downloads))
    /\ cpc' = "yield"
    /\ UNCHANGED <<slotVars, keyVars, apiVars, tnpVars, rectVars, clientVars,
                   items, thread_count, expected, thread_items, outcome,
                   threads, cur, started, errors, stop_event, enqueued>>

\* self._downloads.get(timeout=0.25) raises queue.Empty.
GetTimeout ==
    /\ cpc = "get"
    /\ downloads = <<>>
    /\ cpc' = "empty"
    /\ UNCHANGED <<slotVars, keyVars, apiVars, tnpVars, rectVars, clientVars,
                   items, thread_count, expected, thread_items, outcome,
                   threads, cur, started, downloads, download_counter, errors,
                   stop_event, enqueued, yielded>>

EmptyResultSilent ==
    IF ~are_threads_alive THEN "finished" ELSE "loop"

\* The except queue.Empty block.
EmptyResult ==
    IF ~are_threads_alive
    THEN IF expected # -1 /\ download_counter # expected
         THEN "RuntimeError_dead"
         ELSE "finished"
    ELSE "loop"

Empty ==
    /\ cpc = "empty"
    /\ cpc' = EmptyResult
    /\ UNCHANGED <<slotVars, keyVars, apiVars, tnpVars, rectVars, clientVars,
                   items, thread_count, expected, thread_items, outcome,
                   threads, cur, started, downloads, download_counter, errors,
                   stop_event, enqueued, yielded>>

\* The caller (DownloadManager.start_download) asks for the next value.
Resume ==
    /\ cpc = "yield"
    /\ cpc' = "loop"
    /\ UNCHANGED <<slotVars, keyVars, apiVars, tnpVars, rectVars, clientVars,
                   items, thread_count, expected, thread_items, outcome,
                   threads, cur, started, downloads, download_counter, errors,
                   stop_event, enqueued, yielded>>

\* KeyboardInterrupt in the main thread.  Inside the try block the handler sets
\* stop_event and waits; elsewhere (in _start_threads, in the caller while the
\* generator is suspended at yield, in the handler itself) nothing catches it.
KeyboardInterrupt ==
    /\ cpc \in {"start", "loop", "get", "empty", "yield", "wait"}
    /\ IF cpc \in {"loop", "get", "empty"}
       THEN /\ stop_event' = TRUE
            /\ cpc' = "wait"
       ELSE /\ cpc' = "KeyboardInterrupt"
            /\ UNCHANGED stop_event
    /\ UNCHANGED <<slotVars, keyVars, apiVars, tnpVars, rectVars, clientVars,
                   items, thread_count, expected, thread_items, outcome,
                   threads, cur, started, downloads, download_counter, errors,
                   enqueued, yielded>>

\* while self._are_threads_alive(): time.sleep(0.1) -- then the generator ends.
WaitThreads ==
    /\ cpc = "wait"
    /\ ~are_threads_alive
    /\ cpc' = "interrupted"
    /\ UNCHANGED <<slotVars, keyVars, apiVars, tnpVars, rectVars, clientVars,
                   items, thread_count, expected, thread_items, outcome,
                   threads, cur, started, downloads, download_counter, errors,
                   stop_event, enqueued, yielded>>

(***************************************************************************)
(* BinBPlugin.download_many: one thread per w.                             *)
(***************************************************************************)
LoopTopNoStopCheck(w) ==
    /\ threads[w] = "top"
    /\ IF thread_items[w] = <<>>
       THEN /\ threads' = [threads EXCEPT ![w] = "dead"]
            /\ UNCHANGED <<thread_items, cur>>
       ELSE /\ cur' = [cur EXCEPT ![w] = Head(thread_items[w])]
            /\ thread_items' = [thread_items EXCEPT ![w] = Tail(@)]
            /\ threads' = [threads EXCEPT ![w] = "get_image"]
    /\ UNCHANGED <<slotVars, keyVars, apiVars, tnpVars, rectVars, clientVars,
                   items, thread_count, expected, outcome, started,
                   downloads, download_counter, errors, stop_event, cpc,
                   enqueued, yielded>>

\* Top of the while loop: len(pages), stop_event.is_set(), pages.pop(0).
\* The list is the one held in self._thread_items[w].
LoopTop(w) ==
    /\ threads[w] = "top"
    /\ IF thread_items[w] = <<>> \/ stop_event
       THEN /\ threads' = [threads EXCEPT ![w] = "dead"]
            /\ UNCHANGED <<thread_items, cur>>
       ELSE /\ cur' = [cur EXCEPT ![w] = Head(thread_items[w])]
            /\ thread_items' = [thread_items EXCEPT ![w] = Tail(@)]
            /\ threads' = [threads EXCEPT ![w] = "get_image"]
    /\ UNCHANGED <<slotVars, keyVars, apiVars, tnpVars, rectVars, clientVars,
                   items, thread_count, expected, outcome, started,
                   downloads, download_counter, errors, stop_event, cpc,
                   enqueued, yielded>>

GetImageNoStop(w) ==
    /\ threads[w] = "get_image"
    /\ IF outcome[cur[w]] = "fetch_fail"
       THEN IF errors >= MAX_ERRORS
            THEN threads' = [threads EXCEPT ![w] = "dead"]
            ELSE threads' = [threads EXCEPT ![w] = "inc_errors"]
       ELSE threads' = [threads EXCEPT ![w] = "descramble"]
    /\ UNCHANGED <<slotVars, keyVars, apiVars, tnpVars, rectVars, clientVars,
                   items, thread_count, expected, thread_items, outcome,
                   cur, started, downloads, download_counter, errors, stop_event,
                   cpc, enqueued, yielded>>

\* data = self.binb.get_image(page), None when it raised; then, for None, the
\* test of self._errors against MAX_ERRORS (read without the lock).
GetImage(w) ==
    /\ threads[w] = "get_image"
    /\ IF outcome[cur[w]] = "fetch_fail"
       THEN IF errors >= MAX_ERRORS
            THEN /\ stop_event' = TRUE
                 /\ threads' = [threads EXCEPT ![w] = "dead"]
            ELSE /\ threads' = [threads EXCEPT ![w] = "inc_errors"]
                 /\ UNCHANGED stop_event
       ELSE /\ threads' = [threads EXCEPT ![w] = "descramble"]
            /\ UNCHANGED stop_event
    /\ UNCHANGED <<slotVars, keyVars, apiVars, tnpVars, rectVars, clientVars,
                   items, thread_count, expected, thread_items, outcome,
                   cur, started, downloads, download_counter, errors, cpc,
                   enqueued, yielded>>

\* The failure branch putting the page back on the thread's list.
IncErrorsRetry(w) ==
    /\ threads[w] = "inc_errors"
    /\ errors' = errors + 1
    /\ threads' = [threads EXCEPT ![w] = "top"]
    /\ thread_items' = [thread_items EXCEPT ![w] = Append(@, cur[w])]
    /\ UNCHANGED <<slotVars, keyVars, apiVars, tnpVars, rectVars, clientVars,
                   items, thread_count, expected, outcome,
                   cur, started, downloads, download_counter, stop_event, cpc,
                   enqueued, yielded>>

\* with self._errors_lock: self._errors += 1; continue
IncErrors(w) ==
    /\ threads[w] = "inc_errors"
    /\ errors' = errors + 1
    /\ threads' = [threads EXCEPT ![w] = "top"]
    /\ UNCHANGED <<slotVars, keyVars, apiVars, tnpVars, rectVars, clientVars,
                   items, thread_count, expected, thread_items, outcome,
                   cur, started, downloads, download_counter, stop_event, cpc,
                   enqueued, yielded>>

\* data = self.binb.descramble(page, data, ...); self.got_download((name, data)).
\* An exception of descramble is caught nowhere in download_many: it ends the
\* thread.
Descramble(w) ==
    /\ threads[w] = "descramble"
    /\ IF outcome[cur[w]] = "descramble_fail"
       THEN /\ threads' = [threads EXCEPT ![w] = "dead"]
            /\ UNCHANGED <<downloads, enqueued>>
       ELSE /\ downloads' = Append(downloads, Filename(cur[w]))
            /\ enqueued' = Append(enqueued,
                   [name |-> Filename(cur[w]), thread |-> w, stopped |-> stop_event])
            /\ threads' = [threads EXCEPT ![w] = "top"]
    /\ UNCHANGED <<slotVars, keyVars, apiVars, tnpVars, rectVars, clientVars,
                   items, thread_count, expected, thread_items, outcome,
                   cur, started, download_counter, errors, stop_event, cpc,
                   yielded>>

Next ==
    \/ StartThread
    \/ Done
    \/ Get
    \/ GetTimeout
    \/ Empty
    \/ Resume
    \/ WaitThreads
    \/ KeyboardInterrupt
    \/ \E w \in Threads : LoopTop(w)
    \/ \E w \in Threads : GetImage(w)
    \/ \E w \in Threads : IncErrors(w)
    \/ \E w \in Threads : Descramble(w)

Spec == Init /\ [][Next]_vars

(***************************************************************************)
(* Slot selection on its own: a descrambler asked for one filename's index. *)
(***************************************************************************)
InitSlot ==
    /\ filename \in Filenames
    /\ index = None
    /\ KeyIdle
    /\ ApiIdle
    /\ TnpIdle
    /\ RectIdle
    /\ ClientIdle
    /\ \E o \in Outcomes(0) : BinBPluginInit(1, 0, o)

CalculateIndex ==
    /\ index = None
    /\ index' = calculate_descramble_index(filename)
    /\ UNCHANGED <<filename, poolVars, keyVars, apiVars, tnpVars, rectVars, clientVars>>

NextSlot == CalculateIndex

SpecSlot == InitSlot /\ [][NextSlot]_vars

(***************************************************************************)
(* distribute_items on its own: a fresh ThreadedDownloaderPlugin is handed *)
(* an arbitrary item list.                                                 *)
(***************************************************************************)
ItemLists == SeqsUpTo(0..MaxItem, MaxItems)

InitDistribute ==
    /\ SlotIdle
    /\ KeyIdle
    /\ ApiIdle
    /\ TnpIdle
    /\ RectIdle
    /\ ClientIdle
    /\ \E T \in 1..MaxThreads : ThreadedDownloaderInit(T)
    /\ items \in ItemLists
    /\ expected = None
    /\ thread_items = None
    /\ outcome = <<>>

distribute_items ==
    /\ thread_items = None
    /\ \E expected_downloads \in {-1, Len(items)} : expected' = expected_downloads
    /\ thread_items' = split_items(items, thread_count)
    /\ UNCHANGED <<slotVars, keyVars, apiVars, tnpVars, rectVars, clientVars,
                   items, thread_count, outcome, threads, cur, started,
                   downloads, download_counter, errors, stop_event, cpc,
                   enqueued, yielded>>

NextDistribute == distribute_items

SpecDistribute == InitDistribute /\ [][NextDistribute]_vars

(***************************************************************************)
(* BinBDescrambler: parsing of the key tables (descramble.py).             *)
(* A slot string is the sequence of its code points.  The enumerated       *)
(* strings are ASCII, where str.isdigit() is [0-9] and int() of a run of   *)
(* digits is its decimal value.                                            *)
(***************************************************************************)
\* Code points of the characters RE_SCRAMBLE_DATA and split("-") name.
EQUALS == 61
HYPHEN == 45
PLUS == 43
UNDERSCORE == 95
NEWLINE == 10

DESCRAMBLE_KEY_TYPE1 == 1
DESCRAMBLE_KEY_TYPE2 == 2

\* [0-9], and str.isdigit() of an ASCII character
IsDigit(c) == c \in 48..57

IsUpper(c) == c \in 65..90

IsLower(c) == c \in 97..122

\* [-_0-9A-Za-z]
IsBodyChar(c) == c \in {HYPHEN, UNDERSCORE} \/ IsDigit(c) \/ IsUpper(c) \/ IsLower(c)

\* [0-9]+ is greedy: the position after the run of digits that starts at i.
DigitsEnd(s, i) ==
    CHOOSE j \in i..(Len(s) + 1) :
        /\ \A x \in i..(j - 1) : IsDigit(s[x])
        /\ j = Len(s) + 1 \/ ~IsDigit(s[j])

\* int() of a run of decimal digits
RECURSIVE ToInt(_)
ToInt(ds) ==
    IF ds = <<>> THEN 0
    ELSE 10 * ToInt(SubSeq(ds, 1, Len(ds) - 1)) + (ds[Len(ds)] - 48)

\* int() accepts a non-empty run of decimal digits
IntOk(ds) == ds # <<>> /\ \A x \in 1..Len(ds) : IsDigit(ds[x])

\* RE_SCRAMBLE_DATA.match(s): ^=([0-9]+)-([0-9]+)([-+])([0-9]+)-([-_0-9A-Za-z]+)$
\* ($ also matches before one trailing newline); matched is FALSE for None.
RE_SCRAMBLE_DATA_match(s) ==
    LET a == DigitsEnd(s, 2)
        b == DigitsEnd(s, a + 1)
        c == DigitsEnd(s, b + 1)
        e == IF s[Len(s)] = NEWLINE THEN Len(s) - 1 ELSE Len(s)
    IN  IF /\ Len(s) >= 1
           /\ s[1] = EQUALS
           /\ a > 2 /\ a <= Len(s) /\ s[a] = HYPHEN
           /\ b > a + 1 /\ b <= Len(s) /\ s[b] \in {HYPHEN, PLUS}
           /\ c > b + 1 /\ c <= Len(s) /\ s[c] = HYPHEN
           /\ e > c
           /\ \A x \in (c + 1)..e : IsBodyChar(s[x])
        THEN [matched |-> TRUE,
              groups |-> <<SubSeq(s, 2, a - 1), SubSeq(s, a + 1, b - 1), <<s[b]>>,
                           SubSeq(s, b + 1, c - 1), SubSeq(s, c + 1, e)>>]
        ELSE [matched |-> FALSE, groups |-> <<>>]

parse_type_1_no_v_check(ct, pt) ==
    LET mc == RE_SCRAMBLE_DATA_match(ct)
        mp == RE_SCRAMBLE_DATA_match(pt)
        c == mc.groups
        p == mp.groups
        h == ToInt(c[1])
        v == ToInt(c[2])
        padding == ToInt(c[4])
        target_len == h + v + h * v
    IN  IF ~mc.matched \/ ~mp.matched
        THEN [err |-> "AttributeError", val |-> <<>>]
        ELSE IF c[1] # p[1] \/ c[4] # p[4] \/ c[3] # <<PLUS>> \/ p[3] # <<HYPHEN>>
        THEN [err |-> "ValueError", val |-> <<>>]
        ELSE IF h > 8 \/ v > 8 \/ h * v > 64
        THEN [err |-> "ValueError", val |-> <<>>]
        ELSE IF Len(c[5]) # target_len \/ Len(p[5]) # target_len
        THEN [err |-> "ValueError", val |-> <<>>]
        ELSE [err |-> "ok",
              val |-> [h |-> h, v |-> v, s_str |-> c[5], d_str |-> p[5],
                       padding |-> padding]]

\* _parse_type_1: .groups() of a failed match raises AttributeError; the
\* groups are compared as strings.
parse_type_1(ct, pt) ==
    LET mc == RE_SCRAMBLE_DATA_match(ct)
        mp == RE_SCRAMBLE_DATA_match(pt)
        c == mc.groups
        p == mp.groups
        h == ToInt(c[1])
        v == ToInt(c[2])
        padding == ToInt(c[4])
        target_len == h + v + h * v
    IN  IF ~mc.matched \/ ~mp.matched
        THEN [err |-> "AttributeError", val |-> <<>>]
        ELSE IF c[1] # p[1] \/ c[2] # p[2] \/ c[4] # p[4]
                \/ c[3] # <<PLUS>> \/ p[3] # <<HYPHEN>>
        THEN [err |-> "ValueError", val |-> <<>>]
        ELSE IF h > 8 \/ v > 8 \/ h * v > 64
        THEN [err |-> "ValueError", val |-> <<>>]
        ELSE IF Len(c[5]) # target_len \/ Len(p[5]) # target_len
        THEN [err |-> "ValueError", val |-> <<>>]
        ELSE [err |-> "ok",
              val |-> [h |-> h, v |-> v, s_str |-> c[5], d_str |-> p[5],
                       padding |-> padding]]

\* key.split("-")
Split(s, cur_part) ==
    LET hyphens == {x \in 1..Len(s) : s[x] = HYPHEN}
        cut(n) == IF n = 0 THEN 0
                  ELSE IF n > Cardinality(hyphens) THEN Len(s) + 1
                  ELSE CHOOSE x \in hyphens :
                          Cardinality({y \in hyphens : y < x}) = n - 1
    IN  [n \in 1..(Cardinality(hyphens) + 1) |->
            (IF n = 1 THEN cur_part ELSE <<>>)
            \o SubSeq(s, cut(n - 1) + 1, cut(n) - 1)]

\* decode_t2_key_char: ALPHABET.index, then ALPHABET.lower().index, which
\* raises ValueError for any other character.
IsKeyChar(c) == IsUpper(c) \/ IsLower(c)

decode_t2_key_char(c) ==
    IF IsUpper(c) THEN 1 + (c - 65) * 2 ELSE 0 + (c - 97) * 2

Piece_late_quadrants(data, i, ndx, ndy) ==
    LET f == (ndx - 1) * (ndy - 1)
        g == f + (ndx - 1)
        h == g + (ndy - 1)
        j == h + 1
        size == IF i <= f THEN <<2, 2>>
                ELSE IF i <= g THEN <<2, 1>>
                ELSE IF i <= h THEN <<1, 2>>
                ELSE IF i <= j THEN <<1, 1>>
                ELSE <<0, 0>>
    IN  [x |-> decode_t2_key_char(data[i * 2 + 1]),
         y |-> decode_t2_key_char(data[i * 2 + 2]),
         width |-> size[1], height |-> size[2]]

\* The piece loop of _parse_type_2; i is the 0-based position.  A piece past
\* the last elif has no "width" and no "height": size 0 stands for the missing keys.
Piece(data, i, ndx, ndy) ==
    LET f == (ndx - 1) * (ndy - 1) - 1
        g == f + (ndx - 1)
        h == g + (ndy - 1)
        j == h + 1
        size == IF i <= f THEN <<2, 2>>
                ELSE IF i <= g THEN <<2, 1>>
                ELSE IF i <= h THEN <<1, 2>>
                ELSE IF i <= j THEN <<1, 1>>
                ELSE <<0, 0>>
    IN  [x |-> decode_t2_key_char(data[i * 2 + 1]),
         y |-> decode_t2_key_char(data[i * 2 + 2]),
         width |-> size[1], height |-> size[2]]

\* _parse_type_2: every failure is a ValueError (of len, of int, of index).
parse_type_2(key_) ==
    LET split_key == Split(key_, <<>>)
        ndx == ToInt(split_key[1])
        ndy == ToInt(split_key[2])
        data == split_key[3]
    IN  IF Len(split_key) # 3
        THEN [err |-> "ValueError", val |-> <<>>]
        ELSE IF ~IntOk(split_key[1]) \/ ~IntOk(split_key[2])
        THEN [err |-> "ValueError", val |-> <<>>]
        ELSE IF Len(data) # ndx * ndy * 2
        THEN [err |-> "ValueError", val |-> <<>>]
        ELSE IF \E x \in 1..Len(data) : ~IsKeyChar(data[x])
        THEN [err |-> "ValueError", val |-> <<>>]
        ELSE [err |-> "ok",
              val |-> [ndx |-> ndx, ndy |-> ndy,
                       pieces |-> [i \in 1..(ndx * ndy) |->
                                      Piece(data, i - 1, ndx, ndy)]]]

slot_type_by_ctbl(ct, pt, i) ==
    IF ct[i + 1] = <<>> THEN "IndexError"
    ELSE IF i >= Len(pt) THEN "IndexError"
    ELSE IF pt[i + 1] = <<>> THEN "IndexError"
    ELSE IF ct[i + 1][1] = EQUALS THEN "type1"
    ELSE IF IsDigit(ct[i + 1][1]) THEN "type2"
    ELSE "ValueError"

\* The if/elif/else of _parse_scramble_data for slot i.  `and` evaluates
\* self._ptbl[i][0] only when the ctbl test passed; the message of the
\* ValueError is built from self._ptbl[i].
slot_type(ct, pt, i) ==
    LET c == ct[i + 1]
        p == pt[i + 1]
    IN  IF c = <<>> THEN "IndexError"
        ELSE IF c[1] = EQUALS
        THEN IF i >= Len(pt) THEN "IndexError"
             ELSE IF p = <<>> THEN "IndexError"
             ELSE IF p[1] = EQUALS THEN "type1"
             ELSE "ValueError"
        ELSE IF IsDigit(c[1])
        THEN IF i >= Len(pt) THEN "IndexError"
             ELSE IF p = <<>> THEN "IndexError"
             ELSE IF IsDigit(p[1]) THEN "type2"
             ELSE "ValueError"
        ELSE IF i >= Len(pt) THEN "IndexError"
        ELSE "ValueError"

\* The for loop of _parse_scramble_data; i is the 0-based slot, d the lists
\* built so far.  An exception leaves the lists as they were when it was raised.
RECURSIVE ParseLoop(_, _, _, _)
ParseLoop(ct, pt, i, d) ==
    IF i >= Len(ct) THEN d
    ELSE LET kind == slot_type(ct, pt, i)
         IN  IF kind = "type1"
             THEN LET r == parse_type_1(ct[i + 1], pt[i + 1])
                      d1 == [d EXCEPT !.types = Append(@, DESCRAMBLE_KEY_TYPE1)]
                  IN  IF r.err # "ok" THEN [d1 EXCEPT !.err = r.err]
                      ELSE ParseLoop(ct, pt, i + 1,
                                     [d1 EXCEPT !.t1_parsed = Append(@, r.val)])
             ELSE IF kind = "type2"
             THEN LET c_parsed == parse_type_2(ct[i + 1])
                      p_parsed == parse_type_2(pt[i + 1])
                      d2 == [d EXCEPT !.types = Append(@, DESCRAMBLE_KEY_TYPE2)]
                  IN  IF c_parsed.err # "ok" THEN [d2 EXCEPT !.err = c_parsed.err]
                      ELSE IF p_parsed.err # "ok" THEN [d2 EXCEPT !.err = p_parsed.err]
                      ELSE IF c_parsed.val.ndx # p_parsed.val.ndx
                              \/ c_parsed.val.ndy # p_parsed.val.ndy
                      THEN [d2 EXCEPT !.err = "ValueError"]
                      ELSE ParseLoop(ct, pt, i + 1,
                                     [d2 EXCEPT
                                        !.t2_parsed_ctbl = Append(@, c_parsed.val),
                                        !.t2_parsed_ptbl = Append(@, p_parsed.val)])
             ELSE [d EXCEPT !.err = kind]

\* BinBDescrambler.__init__: empty lists, then _parse_scramble_data.
parse_scramble_data(ct, pt) ==
    ParseLoop(ct, pt, 0,
              [types |-> <<>>, t1_parsed |-> <<>>, t2_parsed_ctbl |-> <<>>,
               t2_parsed_ptbl |-> <<>>, err |-> "ok"])

(***************************************************************************)
(* BinBDescrambler.descramble: the key records a file name selects.        *)
(***************************************************************************)
TNP_ARRAY == <<
    -1, -1, -1, -1, -1, -1, -1, -1, -1, -1, -1, -1, -1, -1, -1, -1,
    -1, -1, -1, -1, -1, -1, -1, -1, -1, -1, -1, -1, -1, -1, -1, -1,
    -1, -1, -1, -1, -1, -1, -1, -1, -1, -1, -1, -1, -1, 62, -1, -1,
    52, 53, 54, 55, 56, 57, 58, 59, 60, 61, -1, -1, -1, -1, -1, -1,
    -1,  0,  1,  2,  3,  4,  5,  6,  7,  8,  9, 10, 11, 12, 13, 14,
    15, 16, 17, 18, 19, 20, 21, 22, 23, 24, 25, -1, -1, -1, -1, 63,
    -1, 26, 27, 28, 29, 30, 31, 32, 33, 34, 35, 36, 37, 38, 39, 40,
    41, 42, 43, 44, 45, 46, 47, 48, 49, 50, 51, -1, -1, -1, -1, -1>>

tnp_lookup_shifted(code) ==
    IF code >= Len(TNP_ARRAY) THEN [err |-> "IndexError", val |-> 0]
    ELSE [err |-> "ok", val |-> TNP_ARRAY[((code + 1) % Len(TNP_ARRAY)) + 1]]

\* TNP_ARRAY[ord(ch)]: the tuple is indexed from 0.
tnp_lookup(code) ==
    IF code >= Len(TNP_ARRAY) THEN [err |-> "IndexError", val |-> 0]
    ELSE [err |-> "ok", val |-> TNP_ARRAY[code + 1]]

\* seq[d] in Python: a negative d counts from the end.
PyIndexOk(seq, d) == d < Len(seq) /\ d >= 0 - Len(seq)

PyIndex_one_late(seq, d) == seq[((d + 1) % Len(seq)) + 1]

PyIndex(seq, d) == IF d >= 0 THEN seq[d + 1] ELSE seq[Len(seq) + d + 1]

\* _tnp(data, h, v): data[i] raises IndexError beyond the end of data.
tnp_of(data, h, v) ==
    IF Len(data) < h + v + h * v
       \/ \E x \in 1..(h + v + h * v) : tnp_lookup(data[x]).err # "ok"
    THEN [err |-> "IndexError", t |-> <<>>, n |-> <<>>, p |-> <<>>]
    ELSE [err |-> "ok",
          t |-> [i \in 1..h |-> tnp_lookup(data[i]).val],
          n |-> [i \in 1..v |-> tnp_lookup(data[h + i]).val],
          p |-> [i \in 1..(h * v) |-> tnp_lookup(data[h + v + i]).val]]

\* _t1_generate_descramble_rectangles up to the slice sizes: the records
\* looked up, _tnp of both, the composed permutation p, and the division by
\* h and by v.  (The rectangles themselves depend on the image.)
t1_lookup(c_index, p_index) ==
    IF c_index >= Len(t1_parsed) \/ p_index >= Len(t1_parsed)
    THEN [err |-> "IndexError", key_type |-> DESCRAMBLE_KEY_TYPE1]
    ELSE LET c_parsed == t1_parsed[c_index + 1]
             p_parsed == t1_parsed[p_index + 1]
             h == c_parsed.h
             v == p_parsed.v
             src == tnp_of(c_parsed.s_str, h, v)
             dst == tnp_of(p_parsed.d_str, h, v)
         IN  IF src.err # "ok" \/ dst.err # "ok"
                \/ \E i \in 1..(h * v) : ~PyIndexOk(src.p, dst.p[i])
             THEN [err |-> "IndexError", key_type |-> DESCRAMBLE_KEY_TYPE1,
                   c |-> c_parsed, p |-> p_parsed]
             ELSE IF h = 0 \/ v = 0
             THEN [err |-> "ZeroDivisionError", key_type |-> DESCRAMBLE_KEY_TYPE1,
                   c |-> c_parsed, p |-> p_parsed]
             ELSE [err |-> "ok", key_type |-> DESCRAMBLE_KEY_TYPE1,
                   c |-> c_parsed, p |-> p_parsed,
                   perm |-> [i \in 1..(h * v) |-> PyIndex(src.p, dst.p[i])]]

\* _t2_generate_descramble_rectangles, for an image past the size test: the
\* records looked up and the piece-by-piece pairing.
t2_lookup(c_index, p_index) ==
    IF c_index >= Len(t2_parsed_ctbl) \/ p_index >= Len(t2_parsed_ptbl)
    THEN [err |-> "IndexError", key_type |-> DESCRAMBLE_KEY_TYPE2]
    ELSE LET c_parsed == t2_parsed_ctbl[c_index + 1]
             p_parsed == t2_parsed_ptbl[p_index + 1]
         IN  IF Len(p_parsed.pieces) < Len(c_parsed.pieces)
             THEN [err |-> "IndexError", key_type |-> DESCRAMBLE_KEY_TYPE2,
                   c |-> c_parsed, p |-> p_parsed]
             ELSE [err |-> "ok", key_type |-> DESCRAMBLE_KEY_TYPE2,
                   c |-> c_parsed, p |-> p_parsed]

\* key_type = self._types[c_index], then the generator of that type.
descramble_lookup(c_index, p_index) ==
    IF c_index >= Len(types) THEN [err |-> "IndexError", key_type |-> 0]
    ELSE IF types[c_index + 1] = DESCRAMBLE_KEY_TYPE1
    THEN t1_lookup(c_index, p_index)
    ELSE t2_lookup(c_index, p_index)

(***************************************************************************)
(* Key tables on their own: a BinBDescrambler is constructed from a pair   *)
(* of tables and then asked to descramble pages.                           *)
(***************************************************************************)
\* str(n) for the numbers written into enumerated keys
Dec(n) == IF n < 10 THEN <<48 + n>> ELSE <<48 + (n \div 10), 48 + (n % 10)>>

Str1(body_kind, h, v) ==
    [i \in 1..(h + v + h * v) |->
        IF i <= h + v THEN 65
        ELSE IF body_kind = "id" THEN 65 + (i - h - v - 1)
        ELSE IF body_kind = "rev" THEN 65 + (h * v - (i - h - v))
        ELSE 66 + (i - h - v - 1)]

BodyKinds == {"id", "rev", "over"}

GridKey(hs, vs, sign, pads, body) ==
    <<EQUALS>> \o hs \o <<HYPHEN>> \o vs \o <<sign>> \o pads \o <<HYPHEN>> \o body

TileKey(ndxs, ndys, data) == ndxs \o <<HYPHEN>> \o ndys \o <<HYPHEN>> \o data

\* Tile data: piece i at (i, 0) in upper or lower case letters.
Str2(upper, ndx, ndy) ==
    [x \in 1..(ndx * ndy * 2) |->
        IF x % 2 = 1 THEN (IF upper THEN 65 ELSE 97) + ((x - 1) \div 2) ELSE 97]

\* Well-formed Grid pairs: both halves written from the same numbers.
GridPairs ==
    {<<GridKey(Dec(h), Dec(v), PLUS, Dec(pad), Str1(sk, h, v)),
       GridKey(Dec(h), Dec(v), HYPHEN, Dec(pad), Str1(dk, h, v))>> :
        h \in 0..MaxH, v \in 0..MaxV, pad \in 0..MaxPad,
        sk \in BodyKinds, dk \in BodyKinds}

\* Well-formed Tile pairs.
TilePairs ==
    {<<TileKey(Dec(ndx), Dec(ndy), Str2(cu, ndx, ndy)),
       TileKey(Dec(ndx), Dec(ndy), Str2(pu, ndx, ndy))>> :
        ndx \in 0..MaxNd, ndy \in 0..MaxNd, cu \in BOOLEAN, pu \in BOOLEAN}

GoodGrid == <<GridKey(Dec(1), Dec(1), PLUS, Dec(0), Str1("id", 1, 1)),
              GridKey(Dec(1), Dec(1), HYPHEN, Dec(0), Str1("id", 1, 1))>>

GoodTile == <<TileKey(Dec(1), Dec(1), Str2(TRUE, 1, 1)),
              TileKey(Dec(1), Dec(1), Str2(FALSE, 1, 1))>>

\* Pairs that differ from GoodGrid or GoodTile in one respect.
OddPairs ==
    {<<GoodGrid[1], GridKey(<<48, 49>>, Dec(1), HYPHEN, Dec(0), Str1("id", 1, 1))>>,
     <<GoodGrid[1], GridKey(Dec(1), Dec(2), HYPHEN, Dec(0), Str1("id", 1, 1))>>,
     <<GoodGrid[1], GridKey(Dec(1), Dec(1), HYPHEN, Dec(1), Str1("id", 1, 1))>>,
     <<GoodGrid[1], GridKey(Dec(1), Dec(1), PLUS, Dec(0), Str1("id", 1, 1))>>,
     <<GoodGrid[2], GoodGrid[2]>>,
     <<GoodGrid[1], GridKey(Dec(1), Dec(1), HYPHEN, Dec(0), Str1("id", 1, 2))>>,
     <<GridKey(Dec(9), Dec(1), PLUS, Dec(0), Str1("id", 9, 1)),
       GridKey(Dec(9), Dec(1), HYPHEN, Dec(0), Str1("id", 9, 1))>>,
     <<GridKey(Dec(1), Dec(1), PLUS, Dec(0), <<65, PLUS, 65>>), GoodGrid[2]>>,
     <<<<EQUALS, 120>>, GoodGrid[2]>>,
     <<GoodGrid[1], <<EQUALS>>>>,
     <<GoodGrid[1], GoodTile[2]>>,
     <<GoodTile[1], GoodGrid[2]>>,
     <<<<120>>, GoodGrid[2]>>,
     <<GoodTile[1], <<120>>>>,
     <<<<>>, GoodGrid[2]>>,
     <<GoodTile[1], <<>>>>,
     <<GoodTile[1], TileKey(Dec(1), Dec(2), Str2(FALSE, 1, 2))>>,
     <<GoodTile[1], Dec(1) \o <<HYPHEN>> \o Dec(1)>>,
     <<GoodTile[1], TileKey(Dec(1), Dec(1), <<97, 49>>)>>,
     <<TileKey(<<49, 120>>, Dec(1), Str2(TRUE, 1, 1)), GoodTile[2]>>}

SlotPairs == GridPairs \cup TilePairs \cup OddPairs

\* Where the second pair of a table sits; every other slot holds the first.
SlotSets == {{}, {0}, {1}, {7}, {1, 2, 3, 4, 5, 6, 7}}

KeyTable(base, alt, at, half) ==
    [i \in 1..8 |-> IF (i - 1) \in at THEN alt[half] ELSE base[half]]

\* File names of two characters select every pair of the slots their
\* characters reach.
KeyFilenames == {<<a, b>> : a \in Chars, b \in Chars}

InitKeys ==
    /\ SlotIdle
    /\ ApiIdle
    /\ TnpIdle
    /\ RectIdle
    /\ ClientIdle
    /\ \E o \in Outcomes(0) : BinBPluginInit(1, 0, o)
    /\ \E base \in {GoodGrid, GoodTile}, alt \in SlotPairs, at \in SlotSets :
          /\ ctbl = KeyTable(base, alt, at, 1)
          /\ ptbl = KeyTable(base, alt, at, 2)
    /\ types = <<>>
    /\ t1_parsed = <<>>
    /\ t2_parsed_ctbl = <<>>
    /\ t2_parsed_ptbl = <<>>
    /\ parsed = "unparsed"
    /\ used = [err |-> "uncalled"]

\* BinBDescrambler(scramble_data)
BinBDescramblerInit ==
    /\ parsed = "unparsed"
    /\ LET d == parse_scramble_data(ctbl, ptbl)
       IN  /\ types' = d.types
           /\ t1_parsed' = d.t1_parsed
           /\ t2_parsed_ctbl' = d.t2_parsed_ctbl
           /\ t2_parsed_ptbl' = d.t2_parsed_ptbl
           /\ parsed' = d.err
    /\ UNCHANGED <<slotVars, poolVars, apiVars, tnpVars, rectVars, clientVars,
                   ctbl, ptbl, used>>

\* descrambler.descramble(filename, file), the first call on a constructed
\* descrambler
descramble ==
    /\ parsed = "ok"
    /\ used.err = "uncalled"
    /\ \E f \in KeyFilenames :
          LET i == calculate_descramble_index(f)
          IN  /\ filename' = f
              /\ index' = i
              /\ used' = descramble_lookup(i[1], i[2])
    /\ UNCHANGED <<poolVars, apiVars, tnpVars, rectVars, clientVars,
                   ctbl, ptbl, types, t1_parsed,
                   t2_parsed_ctbl, t2_parsed_ptbl, parsed>>

NextKeys ==
    \/ BinBDescramblerInit
    \/ descramble

SpecKeys == InitKeys /\ [][NextKeys]_vars

(***************************************************************************)
(* BinBApi._decrypt_descramble_data and get_content_info (binb_api.py).    *)
(* Texts are sequences of code points.                                     *)
(***************************************************************************)
COLON == 58
QUOTE == 34
COMMA == 44
LBRACKET == 91
RBRACKET == 93

\* The one element of a singleton set: Only({F(x) : x \in {e}}) is F of the
\* value of e.
Only(S) == CHOOSE x \in S : TRUE

\* a ^ b for non-negative integers
RECURSIVE Xor(_, _)
Xor(a, b) ==
    IF a = 0 THEN b
    ELSE IF b = 0 THEN a
    ELSE 2 * Xor(a \div 2, b \div 2) + (((a % 2) + (b % 2)) % 2)

\* res += term for 0 <= term < 2^31.  res is a Python integer, which has no
\* width: it is kept as hi * 2^31 + lo with 0 <= lo < 2^31 (the integers of
\* TLC are 32 bits wide).
WideAdd(sum, term) ==
    IF sum.lo > 2147483647 - term
    THEN [hi |-> sum.hi + 1, lo |-> sum.lo - (2147483647 - term) - 1]
    ELSE [hi |-> sum.hi, lo |-> sum.lo + term]

\* x & 0x7FFFFFFF
Mask31(x) == x.lo

\* 1 << n
RECURSIVE Pow2(_)
Pow2(n) == IF n = 0 THEN 1 ELSE 2 * Pow2(n - 1)

\* The for loop of generate_key; i is the 0-based position in s.
RECURSIVE GenerateKeyLoop(_, _, _)
GenerateKeyLoop(s, i, sum) ==
    IF i >= Len(s) THEN sum
    ELSE GenerateKeyLoop(s, i + 1,
             Only({WideAdd(res_, term) :
                      res_ \in {sum}, term \in {s[i + 1] * Pow2(i % 16)}}))

\* generate_key(cid, k): `res or 0x12345678`
generate_key(cid_, k_) ==
    LET sum == Mask31(GenerateKeyLoop(cid_ \o <<COLON>> \o k_, 0,
                                 [hi |-> 0, lo |-> 0]))
    IN  IF sum = 0 THEN 305419896 ELSE sum

\* The step without its feedback term: key = key >> 1
KeyStep_shift_only(key_) == key_ \div 2

\* key = (key >> 1) ^ (-(key & 1) & 0x48200004)
KeyStep(key_) == Xor(key_ \div 2, IF key_ % 2 = 1 THEN 1210056708 ELSE 0)

decrypt_char_mod95(ch, key_) == (((ch - 32) + key_) % 95) + 32

\* n = ((ord(char) - 0x20 + key) % 0x5E) + 0x20, for the stepped key
decrypt_char(ch, key_) == (((ch - 32) + key_) % 94) + 32

\* The position of the quote that closes the string opened at i, 0 if none.
StringEnd(text, i) ==
    IF \E j \in (i + 1)..Len(text) : text[j] = QUOTE
    THEN CHOOSE j \in (i + 1)..Len(text) :
            text[j] = QUOTE /\ \A x \in (i + 1)..(j - 1) : text[x] # QUOTE
    ELSE 0

\* The elements of an array: a string is expected at position i.
RECURSIVE JsonElements(_, _, _)
JsonElements(text, i, acc) ==
    IF i > Len(text) \/ text[i] # QUOTE THEN [err |-> "JSONDecodeError", val |-> <<>>]
    ELSE LET j == StringEnd(text, i)
             elems == Append(acc, SubSeq(text, i + 1, j - 1))
         IN  IF j = 0 \/ j + 1 > Len(text)
             THEN [err |-> "JSONDecodeError", val |-> <<>>]
             ELSE IF text[j + 1] = COMMA THEN JsonElements(text, j + 2, elems)
             ELSE IF text[j + 1] = RBRACKET /\ j + 1 = Len(text)
             THEN [err |-> "ok", val |-> elems]
             ELSE [err |-> "JSONDecodeError", val |-> <<>>]

\* json.loads on the texts enumerated here: arrays of strings and single
\* strings, without white space or escapes, and their damaged forms.  A
\* single string is returned as such; indexing it gives its characters.
json_loads(text) ==
    IF text = <<>> THEN [err |-> "JSONDecodeError", val |-> <<>>]
    ELSE IF text = <<LBRACKET, RBRACKET>> THEN [err |-> "ok", val |-> <<>>]
    ELSE IF text[1] = LBRACKET THEN JsonElements(text, 2, <<>>)
    ELSE IF text[1] = QUOTE /\ StringEnd(text, 1) = Len(text)
    THEN [err |-> "ok", val |-> [i \in 1..(Len(text) - 2) |-> <<text[i + 1]>>]]
    ELSE [err |-> "JSONDecodeError", val |-> <<>>]

(***************************************************************************)
(* The content info on its own: a server encrypts two texts for (cid, k)   *)
(* and get_content_info decrypts them and constructs the descrambler.      *)
(***************************************************************************)
\* The server's side of the cipher: the inverse of decrypt_char.
encrypt_char(ch, key_) == (((ch - 32) + 94 - (key_ % 94)) % 94) + 32

\* The text encrypted under the key stream that follows key_, by halves.
RECURSIVE EncryptFrom(_, _)
EncryptFrom(plaintext, key_) ==
    IF plaintext = <<>> THEN [text |-> <<>>, key |-> key_]
    ELSE IF Len(plaintext) = 1
    THEN [text |-> <<encrypt_char(plaintext[1], KeyStep(key_))>>, key |-> KeyStep(key_)]
    ELSE LET half == Len(plaintext) \div 2
             left == EncryptFrom(SubSeq(plaintext, 1, half), key_)
             right == EncryptFrom(SubSeq(plaintext, half + 1, Len(plaintext)), left.key)
         IN  [text |-> left.text \o right.text, key |-> right.key]

Encrypt(plaintext, cid_, k_) == EncryptFrom(plaintext, generate_key(cid_, k_)).text

\* json.dumps of a list of strings, without white space
RECURSIVE JsonJoin(_)
JsonJoin(tbl) ==
    IF tbl = <<>> THEN <<>>
    ELSE IF Len(tbl) = 1 THEN <<QUOTE>> \o tbl[1] \o <<QUOTE>>
    ELSE <<QUOTE>> \o tbl[1] \o <<QUOTE, COMMA>> \o JsonJoin(Tail(tbl))

JsonText(tbl) == <<LBRACKET>> \o JsonJoin(tbl) \o <<RBRACKET>>

\* Texts for the c-half: arrays of 0..MaxArr copies of the key, the array of
\* 8 without its closing bracket or with a comma before it, and the key as
\* a single JSON string.
TextsC(s) ==
    {JsonText([i \in 1..n |-> s]) : n \in 0..MaxArr}
    \cup {SubSeq(JsonText([i \in 1..8 |-> s]), 1, Len(JsonText([i \in 1..8 |-> s])) - 1),
          <<LBRACKET>> \o JsonJoin([i \in 1..8 |-> s]) \o <<COMMA, RBRACKET>>,
          <<QUOTE>> \o s \o <<QUOTE>>}

\* Texts for the p-half: arrays of MinArr..MaxArr copies of the key and the
\* array of 8 without its closing bracket.
TextsP(s) ==
    {JsonText([i \in 1..n |-> s]) : n \in MinArr..MaxArr}
    \cup {SubSeq(JsonText([i \in 1..8 |-> s]), 1, Len(JsonText([i \in 1..8 |-> s])) - 1)}

\* "1", "ab", and "6yrvb26wz50" followed by the character U+FFF4C, for which
\* the sum of generate_key with an empty k is 2^31
Cids == {<<49>>, <<97, 98>>,
         <<54, 121, 114, 118, 98, 50, 54, 119, 122, 53, 48, 1048396>>}

\* "", "k7"
Ks == {<<>>, <<107, 55>>}

InitApi ==
    /\ SlotIdle
    /\ KeyIdle
    /\ TnpIdle
    /\ RectIdle
    /\ ClientIdle
    /\ \E o \in Outcomes(0) : BinBPluginInit(1, 0, o)
    /\ cid \in Cids
    /\ k_param \in Ks
    /\ \E pair \in {GoodGrid, GoodTile} :
          \E c \in TextsC(pair[1]), p \in TextsP(pair[2]) : plain = <<c, p>>
    /\ content_info = [ctbl |-> Encrypt(plain[1], cid, k_param),
                       ptbl |-> Encrypt(plain[2], cid, k_param)]
    /\ key = 0
    /\ res = <<>>
    /\ decrypted = <<>>
    /\ api = "idle"

\* get_content_info for a response with result 1, up to the first call
\* self._decrypt_descramble_data(self._content_info["ctbl"]): key, res = "".
get_content_info ==
    /\ api = "idle"
    /\ api' = "ctbl"
    /\ key' = generate_key(cid, k_param)
    /\ res' = <<>>
    /\ UNCHANGED <<slotVars, poolVars, keyVars, tnpVars, rectVars, clientVars,
                   cid, k_param, plain,
                   content_info, decrypted>>

\* One iteration of the for loop of _decrypt_descramble_data.
DecryptChar ==
    /\ api \in {"ctbl", "ptbl"}
    /\ Len(res) < Len(content_info[api])
    /\ key' = KeyStep(key)
    /\ res' = Append(res, decrypt_char(content_info[api][Len(res) + 1], key'))
    /\ UNCHANGED <<slotVars, poolVars, keyVars, tnpVars, rectVars, clientVars,
                   cid, k_param, plain,
                   content_info, decrypted, api>>

\* return json.loads(res): the error propagates out of get_content_info;
\* the loaded ctbl is followed by the call for ptbl, the loaded ptbl by the
\* descrambling_data setter.
JsonLoads ==
    /\ api \in {"ctbl", "ptbl"}
    /\ Len(res) = Len(content_info[api])
    /\ decrypted' = Append(decrypted, res)
    /\ LET j == json_loads(res)
       IN  IF j.err # "ok"
           THEN /\ api' = j.err
                /\ UNCHANGED <<key, res, keyVars>>
           ELSE IF api = "ctbl"
           THEN /\ ctbl' = j.val
                /\ api' = "ptbl"
                /\ key' = generate_key(cid, k_param)
                /\ res' = <<>>
                /\ UNCHANGED <<ptbl, types, t1_parsed, t2_parsed_ctbl,
                               t2_parsed_ptbl, parsed, used>>
           ELSE /\ ptbl' = j.val
                /\ api' = "setter"
                /\ UNCHANGED <<key, res, ctbl, types, t1_parsed, t2_parsed_ctbl,
                               t2_parsed_ptbl, parsed, used>>
    /\ UNCHANGED <<slotVars, poolVars, tnpVars, rectVars, clientVars,
                   cid, k_param, plain, content_info>>

\* self.descrambling_data = (ctbl, ptbl): BinBDescrambler(value); its
\* exception propagates out of get_content_info.
descrambling_data_setter ==
    /\ api = "setter"
    /\ LET d == parse_scramble_data(ctbl, ptbl)
       IN  /\ types' = d.types
           /\ t1_parsed' = d.t1_parsed
           /\ t2_parsed_ctbl' = d.t2_parsed_ctbl
           /\ t2_parsed_ptbl' = d.t2_parsed_ptbl
           /\ parsed' = d.err
           /\ api' = d.err
    /\ UNCHANGED <<slotVars, poolVars, tnpVars, rectVars, clientVars,
                   cid, k_param, plain, content_info,
                   key, res, decrypted, ctbl, ptbl, used>>

NextApi ==
    \/ get_content_info
    \/ DecryptChar
    \/ JsonLoads
    \/ descrambling_data_setter

SpecApi == InitApi /\ [][NextApi]_vars

(***************************************************************************)
(* TNP_ARRAY read on its own: one character code, one lookup.              *)
(***************************************************************************)
\* ord(ch) of the characters looked up
Codes == 0..MaxCode

InitTnp ==
    /\ SlotIdle
    /\ KeyIdle
    /\ ApiIdle
    /\ RectIdle
    /\ ClientIdle
    /\ \E o \in Outcomes(0) : BinBPluginInit(1, 0, o)
    /\ tnp_char \in Codes
    /\ tnp = [err |-> "unread", val |-> 0]

\* TNP_ARRAY[ord(ch)]
TnpRead ==
    /\ tnp.err = "unread"
    /\ tnp' = tnp_lookup(tnp_char)
    /\ UNCHANGED <<slotVars, poolVars, keyVars, apiVars, rectVars, clientVars,
                   tnp_char>>

NextTnp == TnpRead

SpecTnp == InitTnp /\ [][NextTnp]_vars

(***************************************************************************)
(* BinBDescrambler.descramble: the rectangles of a page and the pixel      *)
(* copy.  An image is its size; a pixel of the output is named by the      *)
(* pixel of the input it was copied from.                                  *)
(***************************************************************************)
\* The size test of _t1_generate_descramble_rectangles: the raster size.
t1_raster_strict(h, v, padding, size) ==
    LET x == h * 2 * padding
        y == v * 2 * padding
    IN  IF ~(size[1] > 64 + x /\ size[2] > 64 + y
             /\ size[2] * size[1] > (320 + x) * (320 + y))
        THEN <<size[1], size[2]>>
        ELSE <<size[1] - h * 2 * padding, size[2] - v * 2 * padding>>

t1_raster(h, v, padding, size) ==
    LET x == h * 2 * padding
        y == v * 2 * padding
    IN  IF ~(size[1] >= 64 + x /\ size[2] >= 64 + y
             /\ size[2] * size[1] >= (320 + x) * (320 + y))
        THEN <<size[1], size[2]>>
        ELSE <<size[1] - h * 2 * padding, size[2] - v * 2 * padding>>

t1_rectangle_row_for_column(i, h, padding, width, height, v, src, dst, p) ==
    LET slice_width == (width + h - 1) \div h
        slice_height == (height + v - 1) \div v
        last_slice_width == width - (h - 1) * slice_width
        last_slice_height == height - (v - 1) * slice_height
        dst_column == i % h
        dst_row == i \div h
        dst_x == padding + dst_column * (slice_width + 2 * padding)
                 + (IF dst.n[dst_row + 1] < dst_column
                    THEN last_slice_width - slice_width ELSE 0)
        dst_y == padding + dst_row * (slice_height + 2 * padding)
                 + (IF dst.t[dst_column + 1] < dst_row
                    THEN last_slice_height - slice_height ELSE 0)
        src_column == p[i + 1] % h
        src_row == p[i + 1] \div h
        src_x == src_row * slice_width
                 + (IF src.n[src_row + 1] < src_column
                    THEN last_slice_width - slice_width ELSE 0)
        src_y == src_row * slice_height
                 + (IF src.t[src_column + 1] < src_row
                    THEN last_slice_height - slice_height ELSE 0)
        p_width == IF dst.n[dst_row + 1] = dst_column
                   THEN last_slice_width ELSE slice_width
        p_height == IF dst.t[dst_column + 1] = dst_row
                    THEN last_slice_height ELSE slice_height
    IN  [dst_x |-> src_x, dst_y |-> src_y, src_x |-> dst_x, src_y |-> dst_y,
         width |-> p_width, height |-> p_height]

\* One pass of the for loop of _t1_generate_descramble_rectangles, i counted
\* from 0; the rectangle is built with dst and src exchanged.
t1_rectangle(i, h, padding, width, height, v, src, dst, p) ==
    LET slice_width == (width + h - 1) \div h
        slice_height == (height + v - 1) \div v
        last_slice_width == width - (h - 1) * slice_width
        last_slice_height == height - (v - 1) * slice_height
        dst_column == i % h
        dst_row == i \div h
        dst_x == padding + dst_column * (slice_width + 2 * padding)
                 + (IF dst.n[dst_row + 1] < dst_column
                    THEN last_slice_width - slice_width ELSE 0)
        dst_y == padding + dst_row * (slice_height + 2 * padding)
                 + (IF dst.t[dst_column + 1] < dst_row
                    THEN last_slice_height - slice_height ELSE 0)
        src_column == p[i + 1] % h
        src_row == p[i + 1] \div h
        src_x == src_column * slice_width
                 + (IF src.n[src_row + 1] < src_column
                    THEN last_slice_width - slice_width ELSE 0)
        src_y == src_row * slice_height
                 + (IF src.t[src_column + 1] < src_row
                    THEN last_slice_height - slice_height ELSE 0)
        p_width == IF dst.n[dst_row + 1] = dst_column
                   THEN last_slice_width ELSE slice_width
        p_height == IF dst.t[dst_column + 1] = dst_row
                    THEN last_slice_height ELSE slice_height
    IN  [dst_x |-> src_x, dst_y |-> src_y, src_x |-> dst_x, src_y |-> dst_y,
         width |-> p_width, height |-> p_height]

\* _t1_generate_descramble_rectangles(c_index, p_index, img.size); src_n is
\* indexed by floor(p[i] / h), which is past its end when p[i] >= h * v.
t1_generate_descramble_rectangles(ci, pi, size) ==
    LET look == t1_lookup(ci, pi)
    IN  IF look.err # "ok" THEN [err |-> look.err]
        ELSE LET h == look.c.h
                 v == look.p.v
                 padding == look.c.padding
                 raster == t1_raster(h, v, padding, size)
                 src == tnp_of(look.c.s_str, h, v)
                 dst == tnp_of(look.p.d_str, h, v)
             IN  IF \E i \in 1..(h * v) : ~PyIndexOk(src.n, look.perm[i] \div h)
                 THEN [err |-> "IndexError"]
                 ELSE [err |-> "ok", width |-> raster[1], height |-> raster[2],
                       res |-> [i \in 1..(h * v) |->
                                  t1_rectangle(i - 1, h, padding, raster[1],
                                               raster[2], v, src, dst, look.perm)]]

\* math.floor(a / 2) * unit + (a % 2) * odd
t2_length(a, unit, odd) == (a \div 2) * unit + (a % 2) * odd

\* The size test of _t2_generate_descramble_rectangles
t2_size_ok_strict(size) ==
    size[1] > 64 /\ size[2] > 64 /\ size[1] * size[2] > 320 * 320

t2_size_ok(size) ==
    size[1] >= 64 /\ size[2] >= 64 /\ size[1] * size[2] >= 320 * 320

\* The test for a residue strip: the pieces end at e, short of the extent.
t2_residue_inclusive(e, extent) == e <= extent

t2_residue(e, extent) == e < extent

\* _t2_generate_descramble_rectangles(c_index, p_index, img.size)
t2_generate_descramble_rectangles(ci, pi, size) ==
    IF ~t2_size_ok(size) THEN [err |-> "ValueError"]
    ELSE LET look == t2_lookup(ci, pi)
             img_width == size[1]
             img_height == size[2]
             e == img_width - (img_width % 8)
             f == ((e - 1) \div 7) - (((e - 1) \div 7) % 8)
             g == e - f * 7
             h == img_height - (img_height % 8)
             j == ((h - 1) \div 7) - (((h - 1) \div 7) % 8)
             k == h - j * 7
         IN  IF look.err # "ok" THEN [err |-> look.err]
             ELSE IF \E i \in 1..Len(look.c.pieces) : look.c.pieces[i].width = 0
             THEN [err |-> "KeyError"]
             ELSE LET pieces ==
                          [i \in 1..Len(look.c.pieces) |->
                             LET c_piece == look.c.pieces[i]
                                 p_piece == look.p.pieces[i]
                             IN  [src_x |-> t2_length(c_piece.x, f, g),
                                  src_y |-> t2_length(c_piece.y, j, k),
                                  dst_x |-> t2_length(p_piece.x, f, g),
                                  dst_y |-> t2_length(p_piece.y, j, k),
                                  width |-> t2_length(c_piece.width, f, g),
                                  height |-> t2_length(c_piece.height, j, k)]]
                      e2 == f * (look.c.ndx - 1) + g
                      h2 == j * (look.c.ndy - 1) + k
                      right == IF t2_residue(e2, img_width)
                               THEN <<[src_x |-> e2, src_y |-> 0, dst_x |-> e2,
                                       dst_y |-> 0, width |-> img_width - e2,
                                       height |-> h2]>>
                               ELSE <<>>
                      bottom == IF t2_residue(h2, img_height)
                                THEN <<[src_x |-> 0, src_y |-> h2, dst_x |-> 0,
                                        dst_y |-> h2, width |-> img_width,
                                        height |-> img_height - h2]>>
                                ELSE <<>>
                  IN  [err |-> "ok", width |-> img_width, height |-> img_height,
                       res |-> pieces \o right \o bottom]

\* arr[a ... a + n - 1] of a pixel access object of the given extent: a
\* negative index counts from the far edge, an index outside is an IndexError.
SpanOk(a, n, extent) == n <= 0 \/ (a >= 0 - extent /\ a + n <= extent)

\* The three nested loops of descramble over one rectangle touch no pixel
\* outside the image or the new raster.  (An empty range touches none.)
RectOk(rect, size, width, height) ==
    \/ rect.width <= 0
    \/ rect.height <= 0
    \/ /\ SpanOk(rect.src_x, rect.width, size[1])
       /\ SpanOk(rect.src_y, rect.height, size[2])
       /\ SpanOk(rect.dst_x, rect.width, width)
       /\ SpanOk(rect.dst_y, rect.height, height)

\* descramble(filename, file): the index, the key type, the rectangles, the
\* new raster and the copy.  A key type other than 1 or 2 leaves width
\* unbound (UnboundLocalError); types holds no such value.
descramble_image(f, size) ==
    LET i == calculate_descramble_index(f)
        gen == IF i[1] >= Len(types) THEN [err |-> "IndexError"]
               ELSE IF types[i[1] + 1] = DESCRAMBLE_KEY_TYPE1
               THEN t1_generate_descramble_rectangles(i[1], i[2], size)
               ELSE t2_generate_descramble_rectangles(i[1], i[2], size)
    IN  IF gen.err # "ok" THEN gen
        ELSE IF \E n \in 1..Len(gen.res) :
                   ~RectOk(gen.res[n], size, gen.width, gen.height)
        THEN [gen EXCEPT !.err = "IndexError"]
        ELSE gen

(***************************************************************************)
(* Pages on their own: a BinBDescrambler is constructed from one slot pair *)
(* and asked to descramble an image of some size.                          *)
(***************************************************************************)
\* The letters A, B, ... for the values 0, 1, ...
Letters(vals) == [x \in 1..Len(vals) |-> 65 + vals[x]]

\* A Grid pair of bodies cbody and pbody
GridPair(h, v, pad, cbody, pbody) ==
    <<GridKey(Dec(h), Dec(v), PLUS, Dec(pad), Letters(cbody)),
      GridKey(Dec(h), Dec(v), HYPHEN, Dec(pad), Letters(pbody))>>

\* Grid pairs beyond GridPairs: bodies whose t and n parts differ from 0.
MarkedGridPairs ==
    {GridPair(2, 2, 0, <<0, 1, 0, 1, 2, 3, 4, 5>>, <<0, 1, 0, 1, 2, 3, 4, 5>>),
     GridPair(2, 2, 0, <<0, 1, 0, 1, 0, 1, 2, 3>>, <<0, 1, 0, 1, 0, 1, 2, 3>>),
     GridPair(2, 2, 0, <<1, 1, 1, 1, 0, 1, 2, 3>>, <<0, 0, 0, 0, 1, 0, 3, 2>>),
     GridPair(2, 2, 1, <<1, 1, 1, 1, 0, 1, 2, 3>>, <<0, 0, 0, 0, 1, 0, 3, 2>>),
     GridPair(2, 2, 0, <<0, 0, 2, 2, 0, 1, 2, 3>>, <<0, 0, 2, 2, 0, 1, 2, 3>>),
     GridPair(2, 1, 0, <<0, 0, 0, 0, 1>>, <<0, 0, 1, 1, 0>>),
     GridPair(2, 2, 0, <<0, 0, 0, 0, 0, 0, 0, 0>>, <<0, 0, 0, 0, 0, 0, 0, 0>>),
     GridPair(3, 1, 0, <<0, 0, 0, 0, 0, 1, 2>>, <<0, 0, 0, 0, 0, 1, 2>>)}

\* The cell of piece i in a layout of ndx columns and ndy rows that agrees
\* with the sizes _parse_type_2 gives the pieces by their position.
TileCell(i, ndx, ndy) ==
    LET full == (ndx - 1) * (ndy - 1)
    IN  IF i < full THEN <<i % (ndx - 1), i \div (ndx - 1)>>
        ELSE IF i < full + (ndx - 1) THEN <<i - full, ndy - 1>>
        ELSE IF i < full + (ndx - 1) + (ndy - 1)
        THEN <<ndx - 1, i - full - (ndx - 1)>>
        ELSE <<ndx - 1, ndy - 1>>

\* Tile data of that layout; with `first`, the odd column and the odd row
\* come first (upper-case letters for the cells after them).
TileLayout(first, ndx, ndy) ==
    [x \in 1..(ndx * ndy * 2) |->
        LET cell == TileCell((x - 1) \div 2, ndx, ndy)
            at == cell[2 - (x % 2)]
            last == IF x % 2 = 1 THEN ndx - 1 ELSE ndy - 1
        IN  IF ~first THEN 97 + at
            ELSE IF at = last THEN 97
            ELSE 65 + at]

TileGrids == {<<1, 1>>, <<2, 2>>, <<2, 3>>, <<8, 8>>, <<9, 1>>}

\* Tile pairs whose pieces tile the image
LaidTilePairs ==
    {<<TileKey(Dec(nd[1]), Dec(nd[2]), TileLayout(cf, nd[1], nd[2])),
       TileKey(Dec(nd[1]), Dec(nd[2]), TileLayout(pf, nd[1], nd[2]))>> :
        nd \in TileGrids, cf \in BOOLEAN, pf \in BOOLEAN}

RectPairs == GridPairs \cup TilePairs \cup MarkedGridPairs \cup LaidTilePairs

\* Images of a few pixels
SmallSizes == {<<w, hh>> : w \in 1..MaxSide, hh \in {1, 8}}
                 \cup {<<w, w>> : w \in 1..MaxSide}

\* Images at and around the size tests of the two generators
LargeSizes ==
    {<<320, 320>>, <<321, 321>>, <<319, 321>>, <<64, 1600>>, <<63, 1700>>,
     <<66, 1700>>, <<322, 322>>, <<323, 323>>, <<324, 324>>, <<100, 100>>,
     <<328, 328>>, <<400, 300>>}

InitRect ==
    /\ SlotIdle
    /\ ApiIdle
    /\ TnpIdle
    /\ ClientIdle
    /\ \E o \in Outcomes(0) : BinBPluginInit(1, 0, o)
    /\ \E pair \in RectPairs :
          /\ ctbl = KeyTable(pair, pair, {}, 1)
          /\ ptbl = KeyTable(pair, pair, {}, 2)
    /\ types = <<>>
    /\ t1_parsed = <<>>
    /\ t2_parsed_ctbl = <<>>
    /\ t2_parsed_ptbl = <<>>
    /\ parsed = "unparsed"
    /\ used = [err |-> "uncalled"]
    /\ img_size \in SmallSizes \cup LargeSizes
    /\ rects = [err |-> "uncalled"]

\* descrambler.descramble(filename, file) on an image of size img_size
DescrambleFile ==
    /\ parsed = "ok"
    /\ rects.err = "uncalled"
    /\ filename' = SeedFilename
    /\ index' = calculate_descramble_index(SeedFilename)
    /\ rects' = descramble_image(SeedFilename, img_size)
    /\ UNCHANGED <<poolVars, keyVars, apiVars, tnpVars, clientVars, img_size>>

NextRect ==
    \/ BinBDescramblerInit
    \/ DescrambleFile

SpecRect == InitRect /\ [][NextRect]_vars

(***************************************************************************)
(* The API client BinBApi against one server: the lazily fetched           *)
(* attributes, the content-info request and the page lists.                *)
(***************************************************************************)
\* The code of '/'
SLASH == 47

SERVERTYPE_UNSET == None
SERVERTYPE_SBC == 0
SERVERTYPE_STATIC == 1

\* An attribute that has been set to x; an unset attribute is None.  (An
\* empty tuple or an empty string is a value and not None.)
Some(x) == <<x>>

\* The paths "p/a", "p/b", "n/c", "d/e/f" and the path "q" without a slash
PathA == <<112, SLASH, 97>>
PathB == <<112, SLASH, 98>>
PathN == <<110, SLASH, 99>>
PathD == <<100, SLASH, 101, SLASH, 102>>
PathQ == <<113>>

\* requests.codes.ok
codes_ok == 200

\* BinBApi.image_size_priorities
image_size_priorities == <<"M_H", "S_H", "M_L", "S_L">>

\* The statuses a static server answers the four sizes of a page with:
\* 200, 404 Not Found, 204 No Content.
ImageStatuses ==
    {<<200, 200, 200, 200>>, <<404, 200, 404, 200>>, <<404, 404, 404, 200>>,
     <<404, 404, 404, 404>>, <<204, 204, 204, 404>>, <<404, 404, 404, 204>>}

\* What a server holds of one book: the t-img src occurrences of ttx in
\* order (RE_IMAGE_PATH.findall), ImageName of sbcGetSmlImgList and ImageName
\* of sbcGetNecImgList.
Books ==
    {[ttx |-> <<PathA, PathB, PathA, PathB>>, small |-> <<PathA, PathB>>,
      nec |-> <<PathN>>],
     [ttx |-> <<PathA, PathD, PathA>>, small |-> <<PathD>>, nec |-> <<>>],
     [ttx |-> <<PathA, PathQ, PathA, PathQ>>, small |-> <<PathA, PathQ>>,
      nec |-> <<PathQ>>],
     [ttx |-> <<>>, small |-> <<>>, nec |-> <<PathN, PathD>>]}

\* The servers: ServerType and p of the content-info item (p None when the
\* item has no "p"), result of the content-info response and of the sbc
\* responses, the book, and the status of the static server's response for
\* each size of image_size_priorities.  Every other response has status 200.
Servers ==
    {[made |-> TRUE, ServerType |-> t, p |-> p, info_result |-> ir,
      sbc_result |-> sr, book |-> b, image |-> im] :
        t \in {SERVERTYPE_SBC, SERVERTYPE_STATIC},
        p \in {None, Some(""), Some("p")},
        ir \in {0, 1}, sr \in {0, 1}, b \in Books, im \in ImageStatuses}

\* BinBApi.__init__; ret is what the last get_image() returned, None after
\* any other call.
BinBApiInit ==
    [made |-> TRUE,
     err |-> "ok",
     _p |-> None,
     _sbc |-> None,
     _content_info |-> None,
     _content |-> None,
     _server_type |-> SERVERTYPE_UNSET,
     _pages |-> None,
     _page_paths |-> None,
     _nec_pages |-> None,
     _nec_page_paths |-> None,
     _descrambling_data |-> None,
     allow_sbc_on_static |-> FALSE,
     ret |-> None]

\* A call in progress: the client c, the requests sent so far, the exception
\* raised ("ok" while none) and the value of the last property read.
Call == [c |-> client, log |-> requests, err |-> "ok", val |-> None]

Raise(st, e) == [st EXCEPT !.err = e]

\* self.session.get(url) on the given endpoint
Request(st, endpoint) == [st EXCEPT !.log = Append(@, endpoint)]

\* get_content_info(): the request, the result test, then the attributes.
\* (The tables of the item are taken to decrypt and parse.)
BinBApi_get_content_info(st) ==
    LET r == Request(st, "get_content_info")
    IN  IF server.info_result # 1
        THEN [r EXCEPT !.c._content_info = Some("response"),
                       !.err = "BinBApiError"]
        ELSE [r EXCEPT !.c._content_info = Some("item"),
                       !.c._descrambling_data = Some("tables"),
                       !.c._server_type = Some(server.ServerType),
                       !.c._p = IF /\ server.ServerType # SERVERTYPE_STATIC
                                   /\ server.p # None
                                THEN server.p
                                ELSE @,
                       !.c._sbc = Some("sbc/")]

\* The properties p, sbc, server_type and content_info: a get_content_info()
\* when the attribute is None, then the attribute.
p_property(st) ==
    IF st.c._p = None
    THEN Only({[got EXCEPT !.val = got.c._p] :
                  got \in {BinBApi_get_content_info(st)}})
    ELSE [st EXCEPT !.val = st.c._p]

sbc_property(st) ==
    IF st.c._sbc = None
    THEN Only({[got EXCEPT !.val = got.c._sbc] :
                  got \in {BinBApi_get_content_info(st)}})
    ELSE [st EXCEPT !.val = st.c._sbc]

server_type_property(st) ==
    IF st.c._server_type = SERVERTYPE_UNSET
    THEN Only({[got EXCEPT !.val = got.c._server_type] :
                  got \in {BinBApi_get_content_info(st)}})
    ELSE [st EXCEPT !.val = st.c._server_type]

content_info_property(st) ==
    IF st.c._content_info = None
    THEN Only({[got EXCEPT !.val = got.c._content_info] :
                  got \in {BinBApi_get_content_info(st)}})
    ELSE [st EXCEPT !.val = st.c._content_info]

\* not v, for v None or a string
Falsy(v) == v = None \/ v = Some("")

\* elif not self.p: raise RuntimeError, on a call q that has just read p
assert_p(q) ==
    IF q.err = "ok" /\ Falsy(q.val) THEN Raise(q, "RuntimeError") ELSE q

\* The body of _assert_sbc_server_type() on a call t that has just read
\* server_type
assert_server_type(t) ==
    IF t.err # "ok" \/ t.val = Some(SERVERTYPE_SBC) THEN t
    ELSE IF ~t.c.allow_sbc_on_static THEN Raise(t, "RuntimeError")
    ELSE Only({assert_p(q) : q \in {p_property(t)}})

\* _assert_sbc_server_type()
assert_sbc_server_type(st) ==
    Only({assert_server_type(t) : t \in {server_type_property(st)}})

\* self.server_type == SERVERTYPE_STATIC and not self.allow_sbc_on_static,
\* on a call t that has just read server_type
StaticFallback(t) ==
    t.val = Some(SERVERTYPE_STATIC) /\ ~t.c.allow_sbc_on_static

\* s.index("/") exists
HasSlash(s) == \E x \in 1..Len(s) : s[x] = SLASH

\* s[s.index("/")+1:]
after_slash(s) ==
    LET first == CHOOSE x \in 1..Len(s) :
                    s[x] = SLASH /\ \A y \in 1..(x - 1) : s[y] # SLASH
    IN  SubSeq(s, first + 1, Len(s))

\* tuple([s[s.index("/")+1:] for s in paths]), ValueError on a path without
\* a slash, assigned to self.pages
set_pages(st, paths) ==
    IF \E i \in 1..Len(paths) : ~HasSlash(paths[i])
    THEN Raise(st, "ValueError")
    ELSE [st EXCEPT
             !.c._pages = Some([i \in 1..Len(paths) |-> after_slash(paths[i])])]

\* self.page_paths = paths; self.pages = tuple([...])
set_page_paths(st, paths) ==
    IF st.err # "ok" THEN st
    ELSE set_pages([st EXCEPT !.c._page_paths = Some(paths)], paths)

\* page_paths[:len(page_paths) // 2]
first_half(page_paths) == SubSeq(page_paths, 1, Len(page_paths) \div 2)

\* r = self.session.get(url) of an sbc method and its result test, on a call
\* s that has just read sbc for the url
sbc_request(s, endpoint) ==
    IF s.err # "ok" THEN s
    ELSE IF server.sbc_result # 1
    THEN Raise(Request(s, endpoint), "BinBApiError")
    ELSE Request(s, endpoint)

\* p and sbc for the url of an sbc method, then the request, on a call a
\* that has just passed or failed the assertion
sbc_url(a, endpoint) ==
    IF a.err # "ok" THEN a
    ELSE Only({IF q.err # "ok" THEN q
               ELSE Only({sbc_request(s, endpoint) : s \in {sbc_property(q)}}) :
                  q \in {p_property(a)}})

\* The sbc branch shared by the list methods: the assertion, p and sbc for
\* the url, the request, the result test.
sbc_call(st, endpoint) ==
    Only({sbc_url(a, endpoint) : a \in {assert_sbc_server_type(st)}})

\* The request has been sent by the call since it stood at before.
Sent(before, after, endpoint) ==
    /\ Len(after.log) > Len(before.log)
    /\ after.log[Len(after.log)] = endpoint

\* self._content = r.json() of get_content(): set once the response is in,
\* whatever its result
sbc_content(t, r) ==
    IF Sent(t, r, "get_content")
    THEN [r EXCEPT !.c._content = Some("get_content")]
    ELSE r

\* The static branch of get_content(): content.js under sbc
static_content(s) ==
    IF s.err # "ok" THEN s
    ELSE [Request(s, "content.js") EXCEPT !.c._content = Some("content.js")]

\* get_content() on a call t that has just read server_type
get_content_body(t) ==
    IF t.err # "ok" THEN t
    ELSE IF StaticFallback(t)
    THEN Only({set_page_paths(got, first_half(server.book.ttx)) :
                  got \in {static_content(s) : s \in {sbc_property(t)}}})
    ELSE Only({set_page_paths(got, first_half(server.book.ttx)) :
                  got \in {sbc_content(t, r) :
                              r \in {sbc_call(t, "get_content")}}})

\* get_content()
BinBApi_get_content(st) ==
    Only({get_content_body(t) : t \in {server_type_property(st)}})

\* get_small_image_list() on a call t that has just read server_type
get_small_image_list_body(t) ==
    IF t.err # "ok" THEN t
    ELSE IF StaticFallback(t) THEN BinBApi_get_content(t)
    ELSE Only({set_page_paths(r, server.book.small) :
                  r \in {sbc_call(t, "get_small_image_list")}})

\* get_small_image_list()
BinBApi_get_small_image_list(st) ==
    Only({get_small_image_list_body(t) : t \in {server_type_property(st)}})

\* self.nec_page_paths = tuple(res["ImageName"]); self.pages = tuple([...]):
\* the file names go to pages.
set_nec_page_paths(r, paths) ==
    IF r.err # "ok" THEN r
    ELSE set_pages([r EXCEPT !.c._nec_page_paths = Some(paths)], paths)

\* get_nec_image_list()
BinBApi_get_nec_image_list(st) ==
    Only({set_nec_page_paths(r, server.book.nec) :
             r \in {sbc_call(st, "get_nec_image_list")}})

\* check_p(): p for the parameters, sbc for the url, then the request (the
\* result decides only the value returned).
check_p_url(q) ==
    IF q.err # "ok" THEN q
    ELSE Only({IF s.err # "ok" THEN s ELSE Request(s, "check_p") :
                  s \in {sbc_property(q)}})

BinBApi_check_p(st) == Only({check_p_url(q) : q \in {p_property(st)}})

\* The property pages: a get_content() when the attribute is None.
pages_property(st) ==
    IF st.c._pages = None
    THEN Only({[got EXCEPT !.val = got.c._pages] :
                  got \in {BinBApi_get_content(st)}})
    ELSE [st EXCEPT !.val = st.c._pages]

\* The property page_paths: a get_content() when the attribute is None.
page_paths_property(st) ==
    IF st.c._page_paths = None
    THEN Only({[got EXCEPT !.val = got.c._page_paths] :
                  got \in {BinBApi_get_content(st)}})
    ELSE [st EXCEPT !.val = st.c._page_paths]

\* self.page_paths[page_number], on a call r that has just read page_paths
page_path(r, page_number) ==
    IF r.err # "ok" THEN r
    ELSE IF page_number >= Len(r.val[1]) THEN Raise(r, "IndexError")
    ELSE [r EXCEPT !.val = r.val[1][page_number + 1]]

\* r.raise_for_status(): HTTPError on 4xx and 5xx, nothing otherwise
raises_for_status(status) == status >= 400 /\ status < 600

\* What follows the for loop of get_image(), on a call r whose last request
\* was for the n-th size: the test of that response, then return r.content.
static_response(r, n) ==
    IF server.image[n] = codes_ok
    THEN [r EXCEPT !.val = Some(image_size_priorities[n])]
    ELSE IF raises_for_status(server.image[n]) THEN Raise(r, "HTTPError")
    ELSE [r EXCEPT !.val = Some(image_size_priorities[n])]

\* The for loop of get_image() from the n-th size on: sbc and the page's
\* path for the url, the request, then break, continue or the end.
RECURSIVE static_image(_, _, _)
static_image(st, n, page_number) ==
    Only({IF q.err # "ok" THEN q
          ELSE Only({IF server.image[n] # codes_ok
                        /\ n < Len(image_size_priorities)
                     THEN static_image(r, n + 1, page_number)
                     ELSE static_response(r, n) :
                        r \in {Request(q, image_size_priorities[n])}}) :
             q \in {page_path(pp, page_number) :
                       pp \in {IF s.err # "ok" THEN s
                               ELSE page_paths_property(s) :
                                  s \in {sbc_property(st)}}}})

\* The sbc branch of get_image(): p and the page's path for the parameters,
\* sbc for the url, the request; r.content is returned whatever its result.
sbc_image(a, page_number) ==
    IF a.err # "ok" THEN a
    ELSE Only({IF src.err # "ok" THEN src
               ELSE Only({IF s.err # "ok" THEN s
                          ELSE [Request(s, "get_image") EXCEPT
                                   !.val = Some("get_image")] :
                             s \in {sbc_property(src)}}) :
                  src \in {page_path(pp, page_number) :
                             pp \in {IF q.err # "ok" THEN q
                                     ELSE page_paths_property(q) :
                                        q \in {p_property(a)}}}})

\* get_image(page_number) on a call t that has just read server_type
get_image_body(t, page_number) ==
    IF t.err # "ok" THEN t
    ELSE IF StaticFallback(t) THEN static_image(t, 1, page_number)
    ELSE Only({sbc_image(a, page_number) :
                  a \in {assert_sbc_server_type(t)}})

\* get_image(page_number)
BinBApi_get_image(st, page_number) ==
    Only({get_image_body(t, page_number) : t \in {server_type_property(st)}})

\* The most requests a session is followed for
MaxRequests == 3

\* A call ends: the client is as the call left it, the requests are sent.
Returns(st) ==
    /\ client' = [st.c EXCEPT !.err = st.err, !.ret = None]
    /\ requests' = st.log
    /\ UNCHANGED <<slotVars, poolVars, keyVars, apiVars, tnpVars, rectVars,
                   server>>

\* A session is followed while it has sent fewer than MaxRequests requests.
Open == client.made /\ Len(requests) < MaxRequests

\* get_content_info() called by the user, who does so only to start the
\* session: every later fetch is one the client decides on.
GetContentInfo ==
    /\ Open
    /\ requests = <<>>
    /\ \E st \in {BinBApi_get_content_info(Call)} : Returns(st)

\* api.content_info called by the user
ContentInfoRead ==
    /\ Open
    /\ \E st \in {content_info_property(Call)} : Returns(st)

\* check_p() called by the user
CheckP ==
    /\ Open
    /\ \E st \in {BinBApi_check_p(Call)} : Returns(st)

\* get_content() called by the user
GetContent ==
    /\ Open
    /\ \E st \in {BinBApi_get_content(Call)} : Returns(st)

\* get_small_image_list() called by the user
GetSmallImageList ==
    /\ Open
    /\ \E st \in {BinBApi_get_small_image_list(Call)} : Returns(st)

\* get_nec_image_list() called by the user
GetNecImageList ==
    /\ Open
    /\ \E st \in {BinBApi_get_nec_image_list(Call)} : Returns(st)

\* api.pages called by the user
PagesRead ==
    /\ Open
    /\ \E st \in {pages_property(Call)} : Returns(st)

\* get_image(page_number) called by the user, for the first page or the
\* second
GetImage_page ==
    /\ Open
    /\ \E page_number \in 0..1 :
          \E st \in {BinBApi_get_image(Call, page_number)} :
             /\ client' = [st.c EXCEPT
                              !.err = st.err,
                              !.ret = IF st.err = "ok" THEN st.val ELSE None]
             /\ requests' = st.log
             /\ UNCHANGED <<slotVars, poolVars, keyVars, apiVars, tnpVars,
                            rectVars, server>>

\* api.p = "p": the user sets the token by hand.
p_setter ==
    /\ client.made
    /\ client._p = None
    /\ client' = [client EXCEPT !._p = Some("p")]
    /\ UNCHANGED <<slotVars, poolVars, keyVars, apiVars, tnpVars, rectVars,
                   server, requests>>

\* api.allow_sbc_on_static = True
AllowSbcOnStatic ==
    /\ client.made
    /\ ~client.allow_sbc_on_static
    /\ client' = [client EXCEPT !.allow_sbc_on_static = TRUE]
    /\ UNCHANGED <<slotVars, poolVars, keyVars, apiVars, tnpVars, rectVars,
                   server, requests>>

InitClient ==
    /\ SlotIdle
    /\ KeyIdle
    /\ ApiIdle
    /\ TnpIdle
    /\ RectIdle
    /\ \E o \in Outcomes(0) : BinBPluginInit(1, 0, o)
    /\ client = BinBApiInit
    /\ server \in Servers
    /\ requests = <<>>

NextClient ==
    \/ GetContentInfo
    \/ ContentInfoRead
    \/ CheckP
    \/ GetContent
    \/ GetSmallImageList
    \/ GetNecImageList
    \/ PagesRead
    \/ GetImage_page
    \/ p_setter
    \/ AllowSbcOnStatic

SpecClient == InitClient /\ [][NextClient]_vars

(***************************************************************************)
(* Properties of slot selection.                                           *)
(***************************************************************************)
RECURSIVE SumCodes(_, _)
SumCodes(f, P) ==
    IF P = {} THEN 0
    ELSE LET i == CHOOSE j \in P : TRUE
         IN  f[i] + SumCodes(f, P \ {i})

\* 1-based positions of f whose 0-based position has the given parity.
PositionsOfParity(f, parity) == {i \in 1..Len(f) : (i - 1) % 2 = parity}

\* C1: slot selection returns (c_sum mod 8, p_sum mod 8), p_sum summing the
\* code points at even 0-based positions and c_sum those at odd positions;
\* both components are in 0..7.
C1_SlotSelection ==
    index # None =>
        /\ index = <<SumCodes(filename, PositionsOfParity(filename, 1)) % 8,
                     SumCodes(filename, PositionsOfParity(filename, 0)) % 8>>
        /\ index[1] \in 0..7
        /\ index[2] \in 0..7

\* "00001.jpg" selects (6, 2).
C1_Witness ==
    /\ filename = SeedFilename
    /\ index = <<6, 2>>

\* C2 as stated: the empty filename selects (0, 0) and a one-character
\* filename selects (ord(ch) mod 8, 0).
C2_Original ==
    index # None =>
        /\ Len(filename) = 0 => index = <<0, 0>>
        /\ Len(filename) = 1 => index = <<filename[1] % 8, 0>>

\* C2 amended: the empty filename selects (0, 0) and a one-character filename
\* selects (0, ord(ch) mod 8): position 0 is even, so the character is summed
\* into p, the second component.
C2_ShortFilenames ==
    index # None =>
        /\ Len(filename) = 0 => index = <<0, 0>>
        /\ Len(filename) = 1 => index = <<0, filename[1] % 8>>

C2_Witness ==
    /\ index # None
    /\ Len(filename) = 1
    /\ filename[1] % 8 # 0

(***************************************************************************)
(* Properties of distribute_items.                                         *)
(***************************************************************************)
Distinct(its) == \A i, j \in 1..Len(its) : i # j => its[i] # its[j]

Elems(its) == {its[i] : i \in 1..Len(its)}

\* C3: with T threads the item at input position i (0-based) is in bucket
\* i mod T; the buckets hold nothing else, keep the input order, and (for
\* distinct items) are pairwise disjoint with the input as their union.
C3_RoundRobin ==
    thread_items # None =>
        /\ DOMAIN thread_items = 0..(thread_count - 1)
        /\ \A b \in 0..(thread_count - 1) :
              /\ Len(thread_items[b]) =
                    Cardinality({i \in 0..(Len(items) - 1) : i % thread_count = b})
              /\ \A k \in 1..Len(thread_items[b]) :
                    thread_items[b][k] = items[(k - 1) * thread_count + b + 1]
        /\ Distinct(items) =>
              /\ UNION {Elems(thread_items[b]) : b \in 0..(thread_count - 1)}
                    = Elems(items)
              /\ \A a, b \in 0..(thread_count - 1) :
                    a # b => Elems(thread_items[a]) \cap Elems(thread_items[b]) = {}

C3_Witness ==
    /\ thread_items # None
    /\ thread_count >= 2
    /\ Len(items) > thread_count
    /\ Distinct(items)

(***************************************************************************)
(* Properties of the worker pool.                                          *)
(***************************************************************************)
\* Positions of `enqueued` that thread w put after stop_event was set.
PutAfterStop(w) ==
    {i \in 1..Len(enqueued) : enqueued[i].thread = w /\ enqueued[i].stopped}

PutBeforeStop == {i \in 1..Len(enqueued) : ~enqueued[i].stopped}

\* C4: once stop_event is set every thread enqueues at most one further
\* result (the page it was processing) and has then nothing left but to exit;
\* so with d results enqueued before the flag was set, at most d + T are
\* ever enqueued.
C4_CancelBound ==
    /\ \A w \in Threads :
          /\ Cardinality(PutAfterStop(w)) <= 1
          /\ PutAfterStop(w) # {} => threads[w] \in {"top", "dead"}
    /\ Len(enqueued) <= Cardinality(PutBeforeStop) + thread_count

C4_Witness ==
    /\ \E w \in Threads : PutAfterStop(w) # {} /\ threads[w] = "dead"
    /\ PutBeforeStop # {}

\* stop_event was set by a thread (budget exhausted), not by the handler of a
\* KeyboardInterrupt: the handler leaves the consumer waiting.
BudgetAbort ==
    /\ stop_event
    /\ cpc \in {"loop", "get", "empty", "yield", "finished",
                "RuntimeError_dead", "RuntimeError_more"}

\* C5 as stated: as soon as the counter reaches MAX_ERRORS the flag is set
\* within one step of the thread that recorded the failure.  That thread is
\* at the top of its loop right after recording; once no thread stands there
\* it has taken its step.
C5_Original ==
    errors >= MAX_ERRORS =>
        \/ stop_event
        \/ \E w \in Threads : threads[w] = "top"

\* C5 amended: the counter never decreases; a thread whose download fails while
\* the counter is already at MAX_ERRORS or above sets stop_event in that step
\* and exits without counting the failure; no thread sets the flag otherwise;
\* and once the flag is set every thread exits at the top of its loop.
C5_ErrorBudget ==
    [][/\ errors' >= errors
       /\ \A w \in Threads :
             /\ (/\ threads[w] = "get_image"
                 /\ threads'[w] # "get_image"
                 /\ outcome[cur[w]] = "fetch_fail"
                 /\ errors >= MAX_ERRORS)
                => (stop_event' /\ threads'[w] = "dead" /\ errors' = errors)
             /\ (stop_event /\ threads[w] = "top" /\ threads'[w] # "top")
                => threads'[w] = "dead"
       /\ (~stop_event /\ stop_event' /\ cpc' = cpc)
          => (/\ errors >= MAX_ERRORS
              /\ \E w \in Threads :
                    threads[w] = "get_image" /\ threads'[w] = "dead")
      ]_vars

C5_Witness ==
    /\ BudgetAbort
    /\ errors >= MAX_ERRORS
    /\ \A w \in Threads : threads[w] = "dead"

\* The generator has ended by itself: normally or by raising RuntimeError.
ConsumerEnded == cpc \in {"finished", "RuntimeError_dead", "RuntimeError_more"}

\* C6 as stated: a download aborted on the error budget ends with an error of
\* its own, distinct from the one raised when the threads merely exit early
\* ("All downloader threads are dead, but not all downloads have finished").
C6_Original ==
    (BudgetAbort /\ ConsumerEnded) => cpc \notin {"finished", "RuntimeError_dead"}

\* C6 amended: a download aborted on the error budget ends with the same
\* RuntimeError as one whose threads exit early ("All downloader threads are
\* dead, but not all downloads have finished"); it never ends normally.
C6_AbortOutcome ==
    (BudgetAbort /\ ConsumerEnded) => cpc = "RuntimeError_dead"

C6_Witness ==
    /\ BudgetAbort
    /\ cpc = "RuntimeError_dead"

\* C7: the consumer loop ends normally only with download_counter = expected,
\* and does so when it tests the counter at that value; with all threads
\* dead, nothing queued and download_counter < expected it raises
\* RuntimeError instead (a KeyboardInterrupt aside, which leads to "wait").
C7_Completion ==
    [][/\ cpc' = "finished" => download_counter' = expected'
       /\ cpc' = "RuntimeError_dead"
          => (download_counter' < expected' /\ ~are_threads_alive')
       /\ (cpc = "loop" /\ cpc' # "loop" /\ download_counter = expected)
          => cpc' \in {"finished", "wait"}
       /\ (/\ cpc = "empty"
           /\ cpc' # "empty"
           /\ ~are_threads_alive
           /\ downloads = <<>>
           /\ download_counter < expected)
          => cpc' \in {"RuntimeError_dead", "wait"}
      ]_vars

C7_Witness ==
    /\ cpc = "RuntimeError_dead"
    /\ downloads = <<>>
    /\ download_counter > 0
    /\ download_counter < expected

\* Pages whose download fails, and pages that download and descramble.
FailSet == {pg \in DOMAIN outcome : outcome[pg] = "fetch_fail"}

GoodSet == {pg \in DOMAIN outcome : outcome[pg] = "ok"}

\* C8: when the pages of F fail to download (|F| below the budget) and all
\* others succeed, the consumer, once it has ended, has received exactly the
\* pages outside F and the error counter equals |F|.
C8_Original ==
    (/\ ConsumerEnded
     /\ FailSet \cup GoodSet = DOMAIN outcome
     /\ Cardinality(FailSet) < MAX_ERRORS)
    => /\ Elems(yielded) = {Filename(pg) : pg \in GoodSet}
       /\ Len(yielded) = Cardinality(GoodSet)
       /\ errors = Cardinality(FailSet)

\* C9: when descramble raises in a thread, the failure of that page reaches
\* the consumer on the output path instead of being lost with the thread.
C9_Original ==
    \A w \in Threads :
        (/\ threads[w] = "dead"
         /\ cur[w] # NoPage
         /\ outcome[cur[w]] = "descramble_fail")
        => \E i \in 1..Len(enqueued) : enqueued[i].name = Filename(cur[w])

\* The bucket distribute_items gave thread w, and a page's position in it.
Bucket(w) == split_items(items, thread_count)[w]

PosIn(seq, x) == CHOOSE k \in 1..Len(seq) : seq[k] = x

Names(seq) == [k \in 1..Len(seq) |-> seq[k].name]

\* C10: the results one thread enqueues are pages of its own bucket, in the
\* bucket's order; the consumer yields in the order of enqueuing (yielded
\* followed by the queue is the list of enqueued results).
C10_Order ==
    /\ \A i \in 1..Len(enqueued) :
          \E k \in 1..Len(Bucket(enqueued[i].thread)) :
             Filename(Bucket(enqueued[i].thread)[k]) = enqueued[i].name
    /\ \A i, j \in 1..Len(enqueued) :
          (i < j /\ enqueued[i].thread = enqueued[j].thread)
          => PosIn(Bucket(enqueued[i].thread), enqueued[i].name - 1)
                < PosIn(Bucket(enqueued[j].thread), enqueued[j].name - 1)
    /\ yielded \o downloads = Names(enqueued)

\* Two results of one thread yielded in order, around one of another thread
\* that is out of page order.
C10_Witness ==
    /\ Len(yielded) >= 3
    /\ \E k \in 1..(Len(yielded) - 1) : yielded[k] > yielded[k + 1]
    /\ \E w \in Threads :
          Cardinality({i \in 1..Len(enqueued) : enqueued[i].thread = w}) >= 2

(***************************************************************************)
(* Interrupt of the consumer.                                              *)
(***************************************************************************)
\* A KeyboardInterrupt is delivered to the main thread while the consumer is
\* consuming: in the generator's loop or in its caller between two values.
InterruptStep ==
    /\ cpc \in {"loop", "get", "empty", "yield"}
    /\ cpc' \in {"wait", "KeyboardInterrupt"}

\* C11: on an interrupt of the consumer the cancel flag is set and the
\* consumer goes on to await the workers (clean shutdown) instead of raising.
C11_Original ==
    [][InterruptStep => (stop_event' /\ cpc' = "wait")]_vars

(***************************************************************************)
(* Properties of the key tables.                                           *)
(***************************************************************************)
\* descramble has been called on a successfully parsed table.
Called == parsed = "ok" /\ used.err # "uncalled"

c_index == index[1]

p_index == index[2]

\* The table holds slots of both variants.
Mixed == \E i, j \in 1..Len(types) : types[i] # types[j]

\* The parsed record of original slot i of the c-table and of the p-table.
SlotRecordC(i) ==
    IF types[i + 1] = DESCRAMBLE_KEY_TYPE1
    THEN parse_type_1(ctbl[i + 1], ptbl[i + 1]).val
    ELSE parse_type_2(ctbl[i + 1]).val

SlotRecordP(i) ==
    IF types[i + 1] = DESCRAMBLE_KEY_TYPE1
    THEN parse_type_1(ctbl[i + 1], ptbl[i + 1]).val
    ELSE parse_type_2(ptbl[i + 1]).val

\* C12: in a table that mixes Grid and Tile slots, descrambling a page whose
\* file name selects two slots of one variant uses that variant and the
\* parsed records of exactly the original slots c_index and p_index.
C12_Original ==
    (Called /\ Mixed /\ types[c_index + 1] = types[p_index + 1])
    => /\ used.key_type = types[c_index + 1]
       /\ "c" \in DOMAIN used
       /\ used.c = SlotRecordC(c_index)
       /\ used.p = SlotRecordP(p_index)

\* The structural fields of two paired records agree.
Agree(c, p, key_type) ==
    IF key_type = DESCRAMBLE_KEY_TYPE1
    THEN c.h = p.h /\ c.v = p.v /\ c.padding = p.padding
    ELSE c.ndx = p.ndx /\ c.ndy = p.ndy

\* C13 as claimed: the c-record and the p-record that descrambling pairs
\* (slot c_index with slot p_index) agree on h, v, padding or on ndx, ndy.
C13_Original ==
    (Called /\ ~Mixed /\ "c" \in DOMAIN used)
    => Agree(used.c, used.p, used.key_type)

\* The numbers H, V, PAD written in a Grid key string.
GridNumbers(s) ==
    LET g == RE_SCRAMBLE_DATA_match(s).groups
    IN  <<ToInt(g[1]), ToInt(g[2]), ToInt(g[4])>>

\* C13: in a successfully parsed table the c-half and the p-half of one slot
\* index agree on H, V, PAD (Grid) or on ndx, ndy (Tile); nothing more is
\* validated, so the records of two different slots may disagree.
C13_SameSlot ==
    parsed = "ok"
    => \A i \in 1..Len(ctbl) :
          IF types[i] = DESCRAMBLE_KEY_TYPE1
          THEN GridNumbers(ctbl[i]) = GridNumbers(ptbl[i])
          ELSE Agree(parse_type_2(ctbl[i]).val, parse_type_2(ptbl[i]).val,
                     DESCRAMBLE_KEY_TYPE2)

\* A page whose file name pairs two slots that disagree on h.
C13_Witness ==
    /\ Called
    /\ ~Mixed
    /\ c_index # p_index
    /\ used.key_type = DESCRAMBLE_KEY_TYPE1
    /\ "c" \in DOMAIN used
    /\ used.c.h # used.p.h

\* The variant a non-empty slot string announces by its first character.
VariantOf(s) ==
    IF s[1] = EQUALS THEN "Grid" ELSE IF IsDigit(s[1]) THEN "Tile" ELSE "unknown"

\* Slot i (0-based) has two non-empty halves that are not of one known variant.
MismatchSlot(i) ==
    /\ ctbl[i + 1] # <<>>
    /\ ptbl[i + 1] # <<>>
    /\ \/ VariantOf(ctbl[i + 1]) # VariantOf(ptbl[i + 1])
       \/ VariantOf(ctbl[i + 1]) = "unknown"

\* Slot i on its own is a valid pair of one variant.
SlotOk(i) ==
    /\ ctbl[i + 1] # <<>>
    /\ ptbl[i + 1] # <<>>
    /\ ~MismatchSlot(i)
    /\ IF VariantOf(ctbl[i + 1]) = "Grid"
       THEN parse_type_1(ctbl[i + 1], ptbl[i + 1]).err = "ok"
       ELSE /\ parse_type_2(ctbl[i + 1]).err = "ok"
            /\ parse_type_2(ptbl[i + 1]).err = "ok"
            /\ Agree(parse_type_2(ctbl[i + 1]).val, parse_type_2(ptbl[i + 1]).val,
                     DESCRAMBLE_KEY_TYPE2)

Slots == 0..(Len(ctbl) - 1)

\* C14: no accepted table has a slot whose halves are of different variants
\* (or of an unknown one); when parsing reaches such a slot it raises
\* ValueError; a table of valid slots is accepted whatever variants its
\* different slots use.
C14_VariantMismatch ==
    parsed # "unparsed"
    => /\ parsed = "ok" => \A i \in Slots : ~MismatchSlot(i)
       /\ \A i \in Slots :
             (MismatchSlot(i) /\ \A j \in 0..(i - 1) : SlotOk(j))
             => parsed = "ValueError"
       /\ (\A i \in Slots : SlotOk(i)) => parsed = "ok"

\* Parsing went through valid slots and then met a slot with one Grid half
\* and one Tile half.
C14_Witness ==
    /\ parsed = "ValueError"
    /\ \E i \in Slots :
          /\ i >= 2
          /\ MismatchSlot(i)
          /\ VariantOf(ctbl[i + 1]) # "unknown"
          /\ VariantOf(ptbl[i + 1]) # "unknown"
          /\ \A j \in 0..(i - 1) : SlotOk(j)

\* Both halves of slot i start with "=".
BothGrid(i) ==
    /\ ctbl[i + 1] # <<>>
    /\ ptbl[i + 1] # <<>>
    /\ ctbl[i + 1][1] = EQUALS
    /\ ptbl[i + 1][1] = EQUALS

\* Both strings match the Grid pattern, the c-string with sign "+" and the
\* p-string with sign "-", and H, V and PAD agree as numbers.
GridConditions(c, p) ==
    /\ RE_SCRAMBLE_DATA_match(c).matched
    /\ RE_SCRAMBLE_DATA_match(p).matched
    /\ RE_SCRAMBLE_DATA_match(c).groups[3] = <<PLUS>>
    /\ RE_SCRAMBLE_DATA_match(p).groups[3] = <<HYPHEN>>
    /\ GridNumbers(c) = GridNumbers(p)

\* C17: a pair of strings starting with "=" that parsing reaches is accepted
\* only under the Grid conditions, and every other such pair, including one
\* that does not match the Grid pattern, is rejected with ValueError.
C17_Original ==
    parsed # "unparsed"
    => \A i \in Slots :
          (BothGrid(i) /\ \A j \in 0..(i - 1) : SlotOk(j))
          => /\ parsed = "ok" => GridConditions(ctbl[i + 1], ptbl[i + 1])
             /\ ~GridConditions(ctbl[i + 1], ptbl[i + 1]) => parsed = "ValueError"

\* C18: every Grid record that parsing accepted has 1 <= h <= 8,
\* 1 <= v <= 8, h * v <= 64 and s_str, d_str of length h + v + h * v.
C18_Original ==
    \A n \in 1..Len(t1_parsed) :
       LET r == t1_parsed[n]
       IN  /\ 1 <= r.h /\ r.h <= 8
           /\ 1 <= r.v /\ r.v <= 8
           /\ r.h * r.v <= 64
           /\ Len(r.s_str) = r.h + r.v + r.h * r.v
           /\ Len(r.d_str) = r.h + r.v + r.h * r.v

\* Every character of the string maps through TNP_ARRAY into [0, h * v).
InRange(str, h, v) ==
    \A x \in 1..Len(str) :
       /\ tnp_lookup(str[x]).err = "ok"
       /\ tnp_lookup(str[x]).val >= 0
       /\ tnp_lookup(str[x]).val < h * v

\* C19: every character of s_str and d_str of an accepted Grid record (of a
\* size h, v >= 1) maps into [0, h * v), so that descrambling with two
\* accepted records of one size always finds the composed permutation
\* defined.
C19_Original ==
    /\ \A n \in 1..Len(t1_parsed) :
          (t1_parsed[n].h >= 1 /\ t1_parsed[n].v >= 1)
          => /\ InRange(t1_parsed[n].s_str, t1_parsed[n].h, t1_parsed[n].v)
             /\ InRange(t1_parsed[n].d_str, t1_parsed[n].h, t1_parsed[n].v)
    /\ (Called /\ used.key_type = DESCRAMBLE_KEY_TYPE1 /\ "c" \in DOMAIN used
        /\ Agree(used.c, used.p, DESCRAMBLE_KEY_TYPE1) /\ used.c.h >= 1 /\ used.c.v >= 1)
       => used.err = "ok"

(***************************************************************************)
(* Properties of the content info.                                         *)
(***************************************************************************)
\* The text is a JSON array of exactly 8 strings.
ArrayOf8(text) ==
    /\ text # <<>>
    /\ text[1] = LBRACKET
    /\ json_loads(text).err = "ok"
    /\ Len(json_loads(text).val) = 8

\* C15: a decrypted text that is not a JSON array of exactly 8 strings makes
\* the decryption fail with the decode error, so that no such table reaches
\* the key parser.
C15_Original ==
    \A n \in 1..Len(decrypted) :
       ~ArrayOf8(decrypted[n]) => (api = "JSONDecodeError" /\ parsed = "unparsed")

\* The printable range [0x20, 0x7E)
Printable == 32..125

\* The plaintext the text being decrypted was encrypted from.
PlainOf(field) == IF field = "ctbl" THEN plain[1] ELSE plain[2]

\* C16: decrypting what the inverse step encrypted under the same key stream
\* recovers the plaintext, character by character and as a whole; for every
\* key-stream value the per-character map is a bijection of the printable
\* range onto itself.
C16_RoundTrip ==
    /\ \A n \in 1..Len(decrypted) : decrypted[n] = plain[n]
    /\ api \in {"ctbl", "ptbl"}
       => /\ res = SubSeq(PlainOf(api), 1, Len(res))
          /\ Len(res) > 0 => {decrypt_char(ch, key) : ch \in Printable} = Printable

\* Both texts, one of them an array of 8 keys, have been decrypted.
C16_Witness ==
    /\ api = "setter"
    /\ Len(decrypted) = 2
    /\ ArrayOf8(decrypted[1])
    /\ decrypted[1] # decrypted[2]

(***************************************************************************)
(* Properties of the character table.                                      *)
(***************************************************************************)
\* The value of a character code in the base64 numbering with the two given
\* codes as its 62nd and 63rd characters; -1 for every other code.
Base64Value(code, c62, c63) ==
    IF IsUpper(code) THEN code - 65
    ELSE IF IsLower(code) THEN code - 97 + 26
    ELSE IF IsDigit(code) THEN code - 48 + 52
    ELSE IF code = c62 THEN 62
    ELSE IF code = c63 THEN 63
    ELSE 0 - 1

\* C20 as stated: the table maps A-Z to 0..25, a-z to 26..51, 0-9 to 52..61,
\* '+' to 62, '/' to 63 and every other character code to -1.
C20_Original ==
    tnp.err # "unread"
    => tnp = [err |-> "ok", val |-> Base64Value(tnp_char, PLUS, SLASH)]

\* C20 amended: the table maps A-Z to 0..25, a-z to 26..51, 0-9 to 52..61,
\* '-' to 62, '_' to 63 and every other code below 128 to -1 ('+' and '/'
\* included); it has no entry for a code from 128 on, which is an IndexError.
C20_UrlSafeTable ==
    tnp.err # "unread"
    => IF tnp_char < Len(TNP_ARRAY)
       THEN tnp = [err |-> "ok", val |-> Base64Value(tnp_char, HYPHEN, UNDERSCORE)]
       ELSE tnp.err = "IndexError"

\* '-' or '_' has been looked up and read as 62 or 63.
C20_Witness ==
    /\ tnp.err = "ok"
    /\ tnp_char \in {HYPHEN, UNDERSCORE}
    /\ tnp.val \in {62, 63}

(***************************************************************************)
(* Properties of the Tile records.                                         *)
(***************************************************************************)
\* The 0-based slot of the table that the n-th Tile record was parsed from.
TileSlot(n) ==
    CHOOSE i \in 0..(Len(types) - 1) :
       /\ types[i + 1] = DESCRAMBLE_KEY_TYPE2
       /\ Cardinality({j \in 1..i : types[j] = DESCRAMBLE_KEY_TYPE2}) = n - 1

\* DATA of a Tile key NDX-NDY-DATA: what follows its second hyphen.
TileDataOf(s) ==
    LET second == CHOOSE x \in 1..Len(s) :
                     /\ s[x] = HYPHEN
                     /\ Cardinality({y \in 1..(x - 1) : s[y] = HYPHEN}) = 1
    IN  SubSeq(s, second + 1, Len(s))

\* The size of the piece at 0-based position i by the quadrant rule.
QuadrantSize(i, ndx, ndy) ==
    LET full == (ndx - 1) * (ndy - 1)
    IN  IF i < full THEN <<2, 2>>
        ELSE IF i < full + (ndx - 1) THEN <<2, 1>>
        ELSE IF i < full + (ndx - 1) + (ndy - 1) THEN <<1, 2>>
        ELSE <<1, 1>>

TileRecordOk(rec, s) ==
    /\ Len(TileDataOf(s)) = 2 * rec.ndx * rec.ndy
    /\ Len(rec.pieces) = rec.ndx * rec.ndy
    /\ \A i \in 1..Len(rec.pieces) :
          <<rec.pieces[i].width, rec.pieces[i].height>>
             = QuadrantSize(i - 1, rec.ndx, rec.ndy)

\* C21: every accepted Tile slot has len(data) = 2 * ndx * ndy and exactly
\* ndx * ndy pieces, each of the size the quadrant rule gives its position:
\* the first (ndx-1)(ndy-1) are 2x2, the next ndx-1 are 2x1, the next ndy-1
\* are 1x2 and the last one is 1x1.
C21_TileQuadrants ==
    parsed = "ok"
    => /\ Len(t2_parsed_ctbl) = Len(t2_parsed_ptbl)
       /\ \A n \in 1..Len(t2_parsed_ctbl) :
             /\ TileRecordOk(t2_parsed_ctbl[n], ctbl[TileSlot(n) + 1])
             /\ TileRecordOk(t2_parsed_ptbl[n], ptbl[TileSlot(n) + 1])

\* An accepted Tile slot of 2 columns and 3 rows: two 2x2 pieces, one 2x1,
\* two 1x2 and one 1x1.
C21_Witness ==
    /\ parsed = "ok"
    /\ Len(t2_parsed_ctbl) > 0
    /\ t2_parsed_ctbl[1].ndx = 2
    /\ t2_parsed_ctbl[1].ndy = 3
    /\ [i \in 1..6 |-> <<t2_parsed_ctbl[1].pieces[i].width,
                         t2_parsed_ctbl[1].pieces[i].height>>]
          = <<<<2, 2>>, <<2, 2>>, <<2, 1>>, <<1, 2>>, <<1, 2>>, <<1, 1>>>>

Max(a, b) == IF a >= b THEN a ELSE b

CoordinatesInRange(rec) ==
    \A i \in 1..Len(rec.pieces) :
       /\ rec.pieces[i].x >= 0
       /\ rec.pieces[i].x < 2 * Max(rec.ndx, rec.ndy)
       /\ rec.pieces[i].y >= 0
       /\ rec.pieces[i].y < 2 * Max(rec.ndx, rec.ndy)

\* C22: in every accepted Tile slot each piece coordinate (2*pos+1 for an
\* upper-case letter, 2*pos for a lower-case one) lies in
\* [0, 2 * max(ndx, ndy)).
C22_Original ==
    parsed = "ok"
    => /\ \A n \in 1..Len(t2_parsed_ctbl) : CoordinatesInRange(t2_parsed_ctbl[n])
       /\ \A n \in 1..Len(t2_parsed_ptbl) : CoordinatesInRange(t2_parsed_ptbl[n])

(***************************************************************************)
(* Properties of the rectangles.                                           *)
(***************************************************************************)
\* A generator has returned a raster size and rectangles for the page.
Generated == rects.err # "uncalled" /\ "res" \in DOMAIN rects

\* ... the Grid generator, or the Tile generator
GridGenerated == Generated /\ types[c_index + 1] = DESCRAMBLE_KEY_TYPE1

TileGenerated == Generated /\ types[c_index + 1] = DESCRAMBLE_KEY_TYPE2

\* The guards x and y of the Grid size test, from the records of the page
GuardX == t1_parsed[c_index + 1].h * 2 * t1_parsed[c_index + 1].padding

GuardY == t1_parsed[p_index + 1].v * 2 * t1_parsed[c_index + 1].padding

\* The image sits exactly on one of the three thresholds.
OnThreshold ==
    \/ img_size[1] = 64 + GuardX
    \/ img_size[2] = 64 + GuardY
    \/ img_size[1] * img_size[2] = (320 + GuardX) * (320 + GuardY)

\* C23 as stated: a Grid page whose image sits exactly on a threshold
\* follows the unpadded branch, output size (W, H).
C23_Original ==
    (GridGenerated /\ OnThreshold)
    => <<rects.width, rects.height>> = img_size

\* C23 amended: the unpadded branch, output size (W, H), is taken exactly
\* when W < 64 + x or H < 64 + y or W * H < (320 + x) * (320 + y); an image
\* on a threshold that fails none of the three follows the padded branch,
\* output size (W - x, H - y).
C23_Thresholds ==
    GridGenerated
    => <<rects.width, rects.height>>
          = IF \/ img_size[1] < 64 + GuardX
               \/ img_size[2] < 64 + GuardY
               \/ img_size[1] * img_size[2] < (320 + GuardX) * (320 + GuardY)
            THEN img_size
            ELSE <<img_size[1] - GuardX, img_size[2] - GuardY>>

\* A Grid page with padding whose image sits on a threshold came out
\* smaller than the image.
C23_Witness ==
    /\ GridGenerated
    /\ OnThreshold
    /\ GuardX > 0
    /\ GuardY > 0
    /\ <<rects.width, rects.height>> = <<img_size[1] - GuardX, img_size[2] - GuardY>>

\* A coordinate handed to a pixel access object of the given extent
Wrap(a, extent) == IF a < 0 THEN a + extent ELSE a

\* The pixel of the image that pass (dx, dy) of the copy loops over
\* rectangle n writes to pixel xy of the new raster, if any.
Written(n, xy) ==
    LET rect == rects.res[n]
    IN  {<<Wrap(rect.src_x + dx, img_size[1]), Wrap(rect.src_y + dy, img_size[2])>> :
            dx \in {d \in 0..(rect.width - 1) :
                       Wrap(rect.dst_x + d, rects.width) = xy[1]},
            dy \in {d \in 0..(rect.height - 1) :
                       Wrap(rect.dst_y + d, rects.height) = xy[2]}}

\* The pixels of the new raster, each named by the pixel of the image it
\* holds after the copy; <<-1, -1>> names the colour 255 the raster is
\* created with.  Stated for rectangles that write no pixel twice.
NewArr ==
    [xy \in (0..(rects.width - 1)) \X (0..(rects.height - 1)) |->
        LET hits == {n \in 1..Len(rects.res) : Written(n, xy) # {}}
        IN  IF hits = {} THEN <<0 - 1, 0 - 1>>
            ELSE LET n == CHOOSE m \in hits : \A o \in hits : o <= m
                 IN  CHOOSE from \in Written(n, xy) : TRUE]

\* The page was descrambled with the key of bodies cbody and pbody in every
\* slot (h = 2, v = 2, padding = 0).
Page2x2(cbody, pbody) ==
    /\ rects.err # "uncalled"
    /\ ctbl[1] = GridPair(2, 2, 0, cbody, pbody)[1]
    /\ ptbl[1] = GridPair(2, 2, 0, cbody, pbody)[2]

\* The output is the image, pixel for pixel.
SameImage ==
    /\ rects.err = "ok"
    /\ <<rects.width, rects.height>> = img_size
    /\ \A xy \in DOMAIN NewArr : NewArr[xy] = xy

\* C24 as stated: descrambling an 8x8 image with h = 2, v = 2, padding = 0
\* and s_str = d_str = "ABABCDEF" computes the identity permutation and an
\* output equal to the input.
C24_Original ==
    (/\ Page2x2(<<0, 1, 0, 1, 2, 3, 4, 5>>, <<0, 1, 0, 1, 2, 3, 4, 5>>)
     /\ img_size = <<8, 8>>)
    => SameImage

\* C24 amended: with s_str = d_str = "ABABABCD" (t = n = (0, 1) and
\* p = (0, 1, 2, 3)) descrambling an 8x8 image computes the identity
\* permutation and an output equal to the input; so it does for every image
\* of the enumerated small sizes.
C24_Identity ==
    Page2x2(<<0, 1, 0, 1, 0, 1, 2, 3>>, <<0, 1, 0, 1, 0, 1, 2, 3>>)
    => /\ t1_lookup(c_index, p_index).perm = <<0, 1, 2, 3>>
       /\ img_size \in SmallSizes => SameImage

\* The 8x8 image has been descrambled with "ABABABCD": four rectangles of
\* 4x4 pixels.
C24_Witness ==
    /\ Page2x2(<<0, 1, 0, 1, 0, 1, 2, 3>>, <<0, 1, 0, 1, 0, 1, 2, 3>>)
    /\ img_size = <<8, 8>>
    /\ rects.err = "ok"
    /\ Len(rects.res) = 4
    /\ \A n \in 1..4 : rects.res[n].width = 4 /\ rects.res[n].height = 4

\* Two spans of pixels share a pixel.
SpansMeet(a, n, b, m) == n > 0 /\ m > 0 /\ a < b + m /\ b < a + n

\* No two rectangles share a pixel of the new raster (their dst side).
DstDisjoint ==
    \A n, m \in 1..Len(rects.res) :
       n # m =>
          ~(/\ SpansMeet(rects.res[n].dst_x, rects.res[n].width,
                         rects.res[m].dst_x, rects.res[m].width)
            /\ SpansMeet(rects.res[n].dst_y, rects.res[n].height,
                         rects.res[m].dst_y, rects.res[m].height))

\* No two rectangles share a pixel of the image (their src side).
SrcDisjoint ==
    \A n, m \in 1..Len(rects.res) :
       n # m =>
          ~(/\ SpansMeet(rects.res[n].src_x, rects.res[n].width,
                         rects.res[m].src_x, rects.res[m].width)
            /\ SpansMeet(rects.res[n].src_y, rects.res[n].height,
                         rects.res[m].src_y, rects.res[m].height))

\* Every pixel a rectangle copied is still in the new raster where the
\* rectangle put it, so that the inverse list finds it there.
Restorable ==
    \A n \in 1..Len(rects.res) :
       \A dx \in 0..(rects.res[n].width - 1), dy \in 0..(rects.res[n].height - 1) :
          NewArr[<<Wrap(rects.res[n].dst_x + dx, rects.width),
                   Wrap(rects.res[n].dst_y + dy, rects.height)>>]
             = <<Wrap(rects.res[n].src_x + dx, img_size[1]),
                 Wrap(rects.res[n].src_y + dy, img_size[2])>>

Perm == t1_lookup(c_index, p_index).perm

\* perm takes every value of 0 .. h*v - 1 once.
IsPermutation(p) ==
    /\ \A i \in 1..Len(p) : p[i] >= 0 /\ p[i] < Len(p)
    /\ \A i, j \in 1..Len(p) : p[i] = p[j] => i = j

\* h divides the raster width and v the raster height: every slice has the
\* nominal size.
EvenSlices ==
    /\ rects.width % t1_parsed[c_index + 1].h = 0
    /\ rects.height % t1_parsed[p_index + 1].v = 0

InBounds(rect, size, width, height) ==
    /\ rect.width >= 0 /\ rect.height >= 0
    /\ rect.src_x >= 0 /\ rect.src_y >= 0
    /\ rect.dst_x >= 0 /\ rect.dst_y >= 0
    /\ rect.src_x + rect.width <= size[1]
    /\ rect.src_y + rect.height <= size[2]
    /\ rect.dst_x + rect.width <= width
    /\ rect.dst_y + rect.height <= height

TileCalled ==
    rects.err # "uncalled" /\ types[c_index + 1] = DESCRAMBLE_KEY_TYPE2

\* C27 as stated: Tile generation fails with the size error (the ValueError
\* of the size test) on an image of area 320*320 or less, or with a side
\* below 64, and produces rectangles only above that.
C27_Original ==
    TileCalled
    => /\ (\/ img_size[1] < 64
           \/ img_size[2] < 64
           \/ img_size[1] * img_size[2] <= 320 * 320)
          => rects.err = "ValueError"
       /\ "res" \in DOMAIN rects => img_size[1] * img_size[2] > 320 * 320

\* C27 amended: Tile generation fails, with ValueError, exactly on an image
\* with W < 64 or H < 64 or W*H < 320*320; an image of area exactly 320*320
\* with both sides at least 64 passes the test.
C27_TileThreshold ==
    TileCalled
    => /\ rects.err = "ValueError"
          <=> (\/ img_size[1] < 64
               \/ img_size[2] < 64
               \/ img_size[1] * img_size[2] < 320 * 320)
       /\ "res" \in DOMAIN rects => t2_size_ok(img_size)

\* A 320x320 image has been given to the Tile generator, which returned
\* rectangles for it.
C27_Witness ==
    /\ TileCalled
    /\ img_size = <<320, 320>>
    /\ rects.err = "ok"
    /\ Len(rects.res) > 0

\* The Tile record of the page and its piece grid
TileRecord == t2_parsed_ctbl[c_index + 1]

\* Where the pieces of an ndx x ndy grid end along an axis of the given
\* extent: nd - 1 units and one odd unit.
PiecesEnd(nd, extent) ==
    LET e == extent - (extent % 8)
        f == ((e - 1) \div 7) - (((e - 1) \div 7) % 8)
    IN  f * (nd - 1) + (e - f * 7)

\* The number of residue strips needed: one at the right when the pieces end
\* short of the width, one at the bottom when they end short of the height.
Residue ==
    (IF PiecesEnd(TileRecord.ndx, img_size[1]) < img_size[1] THEN 1 ELSE 0)
    + (IF PiecesEnd(TileRecord.ndy, img_size[2]) < img_size[2] THEN 1 ELSE 0)

\* C28 as stated: above the size threshold Tile generation returns exactly
\* 2*ndx*ndy + r rectangles, r the number of residue strips.
C28_Original ==
    TileGenerated
    => Len(rects.res) = 2 * TileRecord.ndx * TileRecord.ndy + Residue

\* C28 amended: Tile generation returns one rectangle for each of the ndx*ndy
\* pieces, then the residue strips: ndx*ndy + r rectangles, r in {0, 1, 2}.
C28_TileCount ==
    TileGenerated
    => /\ Len(rects.res) = TileRecord.ndx * TileRecord.ndy + Residue
       /\ Residue \in 0..2

\* A 321x321 image has been cut with an 8x8 key: 64 pieces and both strips.
C28_Witness ==
    /\ TileGenerated
    /\ img_size = <<321, 321>>
    /\ TileRecord.ndx = 8 /\ TileRecord.ndy = 8
    /\ Len(rects.res) = 66

(***************************************************************************)
(* Properties of the API client.                                           *)
(***************************************************************************)
\* The number of content-info requests sent so far
ContentInfoRequests ==
    Cardinality({i \in 1..Len(requests) : requests[i] = "get_content_info"})

\* C29 as stated: within one session, over any sequence of operations and
\* property reads, the content-info request is sent at most once.
C29_Original == client.made => ContentInfoRequests <= 1

\* pages and page_paths are both set, have the same length, and pages[i] is
\* what follows the first '/' of page_paths[i].
PageListConsistent ==
    /\ client._pages # None
    /\ client._page_paths # None
    /\ LET pages == client._pages[1]
           page_paths == client._page_paths[1]
       IN  /\ Len(pages) = Len(page_paths)
           /\ \A i \in 1..Len(page_paths) :
                 /\ HasSlash(page_paths[i])
                 /\ pages[i] = after_slash(page_paths[i])

\* A call has sent the content request (get_content under sbc, content.js
\* under the static server) as its last request and returned.
GetContentReturns ==
    /\ Len(requests') > Len(requests)
    /\ requests'[Len(requests')] \in {"get_content", "content.js"}
    /\ client'.err = "ok"

\* Some operation has set pages or page_paths.
PageListSet == client._pages # None \/ client._page_paths # None

\* C30 as stated: once any operation has set pages or page_paths the page
\* list is consistent, and when get_content returns page_paths is the first
\* half of the t-img src occurrences, in order.
C30_Original ==
    /\ [](PageListSet => PageListConsistent)
    /\ [][GetContentReturns
          => client'._page_paths = Some(first_half(server.book.ttx))]_vars

\* The requests a step sends
NewRequests == {requests'[i] : i \in (Len(requests) + 1)..Len(requests')}

\* A step that is a get_content() or a get_image() of a client that knows,
\* when the call ends, that the server is STATIC
StaticContentCall ==
    /\ GetContent \/ GetImage_page
    /\ client'._server_type = Some(SERVERTYPE_STATIC)

\* The step went through the proxy: it sent the sbc request for the content
\* or the image.
SbcPathTaken == NewRequests \cap {"get_content", "get_image"} # {}

\* The step did not go through the proxy and the mode did not make it fail
\* (RuntimeError); if it returned, it had gone to the static server for
\* content.js or for a size of the page.
StaticPathTaken ==
    /\ ~SbcPathTaken
    /\ client'.err # "RuntimeError"
    /\ client'.err = "ok"
       => NewRequests \cap ({"content.js"} \cup Elems(image_size_priorities))
          # {}

\* allow_sbc_on_static is set and a p token is present when the call starts.
ProxyAllowed == client.allow_sbc_on_static /\ ~Falsy(client._p)

\* C31 as stated: in STATIC mode get_content and get_image take the sbc path
\* only when allow_sbc_on_static is set and p is present; in every other
\* STATIC case, allow_sbc_on_static without p included, they fall back to
\* the static path instead of failing.
C31_Original ==
    [][StaticContentCall
       => /\ SbcPathTaken => ProxyAllowed
          /\ ~ProxyAllowed => StaticPathTaken]_vars

\* A request for one size of a page
IsSize(endpoint) == endpoint \in Elems(image_size_priorities)

\* The sizes a step requests, in the order it requests them
SizesRequested ==
    SelectSeq(SubSeq(requests', Len(requests) + 1, Len(requests')), IsSize)

\* A step that is a get_image() of a client in STATIC mode without
\* allow_sbc_on_static, and that got as far as the first size
StaticImageCall ==
    /\ GetImage_page
    /\ client'._server_type = Some(SERVERTYPE_STATIC)
    /\ ~client.allow_sbc_on_static
    /\ SizesRequested # <<>>

\* The positions of image_size_priorities the static server answers with 200
Winners == {n \in 1..Len(image_size_priorities) : server.image[n] = codes_ok}

\* The first of them
FirstWinner == CHOOSE n \in Winners : \A m \in Winners : n <= m

\* C32 as stated: in STATIC mode get_image requests the sizes in the order
\* M_H, S_H, M_L, S_L, stops at the first 200 and returns that response's
\* bytes; if no size answers 200 it raises an HTTP error and returns nothing.
C32_Original ==
    [][StaticImageCall
       => IF Winners # {}
          THEN /\ SizesRequested = SubSeq(image_size_priorities, 1, FirstWinner)
               /\ client'.err = "ok"
               /\ client'.ret = Some(image_size_priorities[FirstWinner])
          ELSE /\ SizesRequested = image_size_priorities
               /\ client'.err = "HTTPError"
               /\ client'.ret = None]_vars

(***************************************************************************)
(* Further properties of the worker pool.                                  *)
(***************************************************************************)
\* C34 as stated: under every interleaving of the workers the shared error
\* counter never exceeds MAX_ERRORS.
C34_Original == errors <= MAX_ERRORS

\* Every page of the book is fetched and descrambled successfully.
AllSucceed == \A pg \in DOMAIN outcome : outcome[pg] = "ok"

\* C33 as stated: when every fetch and descramble succeeds the consumer never
\* raises the "threads are dead" error, and once it has ended it has finished
\* cleanly with all expected results yielded.
C33_Original ==
    AllSucceed =>
        /\ cpc # "RuntimeError_dead"
        /\ ConsumerEnded =>
              /\ cpc = "finished"
              /\ Len(yielded) = expected

\* ------------------------------------------------------------------------
\* Further properties of the BinBApi client
\* ------------------------------------------------------------------------

\* C35 as stated: a failed get_content_info() leaves the cache as it was:
\* whenever _content_info is set it is the item of a successful call (never
\* the envelope of a failed response), and server_type and the content
\* server base are set beside it.
C35_Original ==
    (client.made /\ client._content_info # None) =>
        /\ client._content_info = Some("item")
        /\ client._server_type # SERVERTYPE_UNSET
        /\ client._sbc # None

\* ------------------------------------------------------------------------
\* The key stream of the cipher
\* ------------------------------------------------------------------------

\* (a + b) mod 2^31 for a, b in [0, 2^31)
AddMod31(a, b) ==
    IF a > 2147483647 - b THEN a - (2147483647 - b) - 1 ELSE a + b

\* The sum of ord(s[i]) << (i mod 16) over the first n characters of s,
\* modulo 2^31 (i counted from 0).
RECURSIVE ShiftedSum(_, _)
ShiftedSum(s, n) ==
    IF n = 0 THEN 0
    ELSE Only({AddMod31(a, b) :
                  a \in {ShiftedSum(s, n - 1)},
                  b \in {s[n] * Pow2((n - 1) % 16)}})

\* The seed the claim states for the string s = cid + ":" + k.
SeedOf(s) ==
    Only({IF m = 0 THEN 305419896 ELSE m : m \in {ShiftedSum(s, Len(s))}})

\* x with bit b inverted
FlipBit(x, b) ==
    IF (x \div Pow2(b)) % 2 = 1 THEN x - Pow2(b) ELSE x + Pow2(b)

\* (key >> 1) XOR 0x48200004 if key is odd, key >> 1 otherwise;
\* 0x48200004 has the bits 30, 27, 21 and 2.
StreamStep(key_) ==
    IF key_ % 2 = 1
    THEN FlipBit(FlipBit(FlipBit(FlipBit(key_ \div 2, 30), 27), 21), 2)
    ELSE key_ \div 2

\* C36: the key starts as the seed of cid + ":" + k (the shifted sum masked
\* to 31 bits, 0x12345678 when that is 0), every key-stream step takes it to
\* (key >> 1) XOR (0x48200004 if key is odd else 0), and throughout it is
\* in [1, 2^31).
C36_KeyRange ==
    /\ [](api # "idle" => (key >= 1 /\ key <= 2147483647))
    /\ [][get_content_info => key' = SeedOf(cid \o <<COLON>> \o k_param)]_vars
    /\ [][DecryptChar => key' = StreamStep(key)]_vars

\* The seed was the substituted 0x12345678 and the stream has passed both an
\* even and an odd key.
C36_Witness ==
    /\ api \in {"ctbl", "ptbl"}
    /\ SeedOf(cid \o <<COLON>> \o k_param) = 305419896
    /\ ShiftedSum(cid \o <<COLON>> \o k_param, Len(cid) + 1 + Len(k_param)) = 0
    /\ Len(res) >= 8
    /\ key >= 1 /\ key <= 2147483647

\* Page pg has been taken off the lists of all threads.
Taken(pg) == \A w \in Threads : \A i \in 1..Len(thread_items[w]) : thread_items[w][i] # pg

\* Thread w holds a page between pages.pop(0) and the end of the iteration.
InProgress(w) == threads[w] \in {"get_image", "inc_errors", "descramble"}

EnqueuedNames == {enqueued[i].name : i \in 1..Len(enqueued)}

C38_CounterBound ==
    /\ download_counter <= expected
    /\ download_counter = Len(yielded)
    /\ expected = Len(items)
    /\ cpc # "RuntimeError_more"

\* The consumer has yielded every page of a book of MaxPages pages and
\* _done() has ended the loop.
C38_Witness ==
    /\ expected = MaxPages
    /\ download_counter = expected
    /\ cpc = "finished"

\* The rectangles after those of the pieces: the residue strips
Strips ==
    SubSeq(rects.res, TileRecord.ndx * TileRecord.ndy + 1, Len(rects.res))

\* The piece area is [0, PieceRight) x [0, PieceBottom)
PieceRight == PiecesEnd(TileRecord.ndx, img_size[1])

PieceBottom == PiecesEnd(TileRecord.ndy, img_size[2])

\* Two rectangles share a pixel on the destination side.
Overlap(r1, r2) ==
    /\ r1.width > 0 /\ r1.height > 0 /\ r2.width > 0 /\ r2.height > 0
    /\ r1.dst_x < r2.dst_x + r2.width /\ r2.dst_x < r1.dst_x + r1.width
    /\ r1.dst_y < r2.dst_y + r2.height /\ r2.dst_y < r1.dst_y + r1.height

\* The number of pixels of the strips
RECURSIVE StripArea(_)
StripArea(strips) ==
    IF strips = <<>> THEN 0
    ELSE strips[1].width * strips[1].height + StripArea(Tail(strips))

Least(a, b) == IF a < b THEN a ELSE b

\* The number of pixels of the W x H image outside the piece area
RemainderArea ==
    img_size[1] * img_size[2]
    - Least(PieceRight, img_size[1]) * Least(PieceBottom, img_size[2])

\* C39 as stated: the residue strips are identity moves, do not overlap each
\* other and cover exactly the pixels of the W x H image outside the piece
\* area (they lie in the image, off the piece area, and their pixels number
\* those of the remainder); the raster is (W, H).
C39_Original ==
    TileGenerated =>
        /\ \A n \in 1..Len(Strips) :
              /\ Strips[n].src_x = Strips[n].dst_x
              /\ Strips[n].src_y = Strips[n].dst_y
              /\ InBounds(Strips[n], img_size, img_size[1], img_size[2])
              /\ Strips[n].dst_x >= PieceRight \/ Strips[n].dst_y >= PieceBottom
        /\ \A n, m \in 1..Len(Strips) : n # m => ~Overlap(Strips[n], Strips[m])
        /\ StripArea(Strips) = RemainderArea
        /\ rects.width = img_size[1]
        /\ rects.height = img_size[2]

=============================================================================
